---------------------------- MODULE Spec2Model ----------------------------
(***************************************************************************)
(* A model of go-retryable-httpclient: the client built by New, the        *)
(* request life cycle of SendRequest / SendRequestAndUnmarshallJsonResponse *)
(* (dump, send with retries, classification, JSON decoding) and the        *)
(* HttpError value with its Is and Error methods.                          *)
(*                                                                         *)
(* Go strings are sequences of one-character strings, so that             *)
(* strings.Contains, concatenation and decoding are computed, not assumed. *)
(* A nil error is NilErr, a nil *http.Response is NilResp.                 *)
(***************************************************************************)
EXTENDS Integers, Sequences, FiniteSets, TLC

VARIABLES
    client,                 \* the *Client returned by New
    retryableHttpClientDo,  \* package variable: "retryablehttp" or "mock"
    pc,                     \* position of the logical call
    req,                    \* the request handed to sendRequest
    v,                      \* the destination: "nil" or "ptr"
    data,                   \* the value the destination points to
    i,                      \* retryablehttp Do: loop index
    attempt,                \* retryablehttp Do: attempts made
    attemptResp,            \* retryablehttp Do: resp of the current attempt
    doErr,                  \* retryablehttp Do: error of the current attempt
    shouldRetry,            \* retryablehttp Do: the policy's decision
    checkErr,               \* retryablehttp Do: the policy's error
    resp,                   \* do: the response the sender returned
    err,                    \* do: the error the sender returned
    retResp,                \* the response returned to the caller
    retErr,                 \* the error returned to the caller
    requestDumps,           \* dumps handed to requestDumpLogger in this call
    responseDumps,          \* dumps handed to responseDumpLogger in this call
    dumpCalls,              \* calls of dumpRequestOut / dumpResponse in this call
    decodes,                \* jsonDecode invocations in this call
    e,                      \* HttpError.Is / Error: the receiver
    targetErr,              \* HttpError.Is: the target
    args,                   \* a function called on its own: its arguments
    out                     \* a function called on its own: its result

vars == <<client, retryableHttpClientDo, pc, req, v, data, i, attempt,
          attemptResp, doErr, shouldRetry, checkErr, resp, err, retResp,
          retErr, requestDumps, responseDumps, dumpCalls, decodes,
          e, targetErr, args, out>>

callVars == <<client, retryableHttpClientDo, pc, req, v, data, i, attempt,
              attemptResp, doErr, shouldRetry, checkErr, resp, err, retResp,
              retErr, requestDumps, responseDumps, dumpCalls, decodes>>

errVars == <<e, targetErr, args, out>>

---------------------------------------------------------------------------
(* Bounds of the model.                                                    *)

\* the largest WithMaxRetries value drawn
MaxRetries == 2

---------------------------------------------------------------------------
(* Strings.                                                                *)

\* strings.Contains(s, substr)
Contains(s, substr) ==
    \E k \in 0..(Len(s) - Len(substr)) : SubSeq(s, k + 1, k + Len(substr)) = substr

Digit(d) ==
    CASE d = 0 -> "0" [] d = 1 -> "1" [] d = 2 -> "2" [] d = 3 -> "3"
      [] d = 4 -> "4" [] d = 5 -> "5" [] d = 6 -> "6" [] d = 7 -> "7"
      [] d = 8 -> "8" [] d = 9 -> "9"

RECURSIVE Itoa(_)
\* strconv.Itoa for n >= 0
Itoa(n) ==
    IF n < 10 THEN <<Digit(n)>> ELSE Itoa(n \div 10) \o <<Digit(n % 10)>>

sEOF == <<"E", "O", "F">>
sColonSpace == <<":", " ">>
sParsingResponse ==
    <<"p", "a", "r", "s", "i", "n", "g", " ", "r", "e", "s", "p", "o", "n", "s", "e">>
sDecodingResponse ==
    <<"d", "e", "c", "o", "d", "i", "n", "g", " ", "r", "e", "s", "p", "o", "n", "s", "e">>
sGivingUpAfter ==
    <<" ", "g", "i", "v", "i", "n", "g", " ", "u", "p", " ", "a", "f", "t", "e", "r", " ">>
sAttempts == <<" ", "a", "t", "t", "e", "m", "p", "t", "(", "s", ")">>

---------------------------------------------------------------------------
(* Errors.  An error made by errors.New is a pointer: id is its identity.  *)

NilErr == [kind |-> "nil"]

errorsNew(id, msg) == [kind |-> "errorString", id |-> id, msg |-> msg]

\* err.Error() of the errors that are not HttpError
ErrorText(x) == IF x = NilErr THEN <<"<", "n", "i", "l", ">">> ELSE x.msg

\* errors.Wrap(err, message) of github.com/pkg/errors
Wrap(x, message) ==
    IF x = NilErr THEN NilErr
    ELSE [kind |-> "withStack", msg |-> message \o sColonSpace \o ErrorText(x),
          cause |-> x]

---------------------------------------------------------------------------
(* HttpError and its equality.                                             *)

HttpError(url, statusCode, body, x) ==
    [kind |-> "HttpError", Url |-> url, StatusCode |-> statusCode,
     Body |-> body, Err |-> x]

sameStatusCodesExact(status, anotherStatus) == status = anotherStatus

sameStatusCodes(status, anotherStatus) ==
    status = anotherStatus \/ anotherStatus = 0

sameBodiesEqual(body, anotherBody) ==
    body = anotherBody \/ anotherBody = <<>>

sameBodies(body, anotherBody) ==
    Contains(body, anotherBody) \/ anotherBody = <<>>

sameErrorsByText(x, anotherErr) == ErrorText(x) = ErrorText(anotherErr)

sameErrors(x, anotherErr) == x = anotherErr

IsZeroTarget(h, t) ==
    LET z == IF t = NilErr \/ t.kind # "HttpError"
             THEN HttpError(<<>>, 0, <<>>, NilErr)
             ELSE t
    IN  /\ sameStatusCodes(h.StatusCode, z.StatusCode)
        /\ sameBodies(h.Body, z.Body)
        /\ sameErrors(h.Err, z.Err)

\* (e *HttpError) Is(targetErr error) bool
Is(h, t) ==
    IF t = NilErr THEN FALSE
    ELSE IF t.kind # "HttpError" THEN FALSE
    ELSE /\ sameStatusCodes(h.StatusCode, t.StatusCode)
         /\ sameBodies(h.Body, t.Body)
         /\ sameErrors(h.Err, t.Err)

sRequestTo ==
    <<"r", "e", "q", "u", "e", "s", "t", " ", "t", "o", " ">>
sFailedHttpStatus ==
    <<" ", "f", "a", "i", "l", "e", "d", ".", " ", "h", "t", "t", "p", "S",
      "t", "a", "t", "u", "s", ":", " ", "[", " ">>
sResponseBody ==
    <<" ", "]", " ", "r", "e", "s", "p", "o", "n", "s", "e", "B", "o", "d",
      "y", ":", " ", "[", " ">>
sError ==
    <<" ", "]", " ", "e", "r", "r", "o", "r", ":", " ", "[", " ">>
sEnd ==
    <<" ", "]">>
sNoStatus ==
    <<"n", "o", " ", "s", "t", "a", "t", "u", "s">>

ErrorZeroStatus(h) ==
    LET httpStatusCode == IF h.StatusCode >= 0 THEN Itoa(h.StatusCode)
                          ELSE sNoStatus
    IN  sRequestTo \o h.Url \o sFailedHttpStatus \o httpStatusCode
        \o sResponseBody \o h.Body \o sError \o ErrorText(h.Err) \o sEnd

\* (e *HttpError) Error() string
Error(h) ==
    LET httpStatusCode == IF h.StatusCode > 0 THEN Itoa(h.StatusCode)
                          ELSE sNoStatus
    IN  sRequestTo \o h.Url \o sFailedHttpStatus \o httpStatusCode
        \o sResponseBody \o h.Body \o sError \o ErrorText(h.Err) \o sEnd

---------------------------------------------------------------------------
(* Responses.  Body is the response's body stream: its bytes, how many of  *)
(* them were read, how often it was closed, and the error its Read gives   *)
(* (NilErr when the stream reads to its end).                              *)

NilResp == [kind |-> "nil"]

Response(statusCode, bytes, readErr) ==
    [kind |-> "resp", StatusCode |-> statusCode,
     Body |-> [data |-> bytes, off |-> 0, closed |-> 0, readErr |-> readErr]]

\* resp.Body.Close()
Close(body) == [body EXCEPT !.closed = @ + 1]

\* as ioReadAll, reading the stream from its start whatever was read before
ioReadAllFromStart(body) ==
    IF body.readErr # NilErr
    THEN [bytes |-> <<>>, err |-> body.readErr, body |-> body]
    ELSE [bytes |-> body.data, err |-> NilErr,
          body |-> [body EXCEPT !.off = Len(body.data)]]

\* ioReadAll(r): the bytes left in the stream, or the stream's error
ioReadAll(body) ==
    IF body.readErr # NilErr
    THEN [bytes |-> <<>>, err |-> body.readErr, body |-> body]
    ELSE [bytes |-> SubSeq(body.data, body.off + 1, Len(body.data)),
          err |-> NilErr,
          body |-> [body EXCEPT !.off = Len(body.data)]]

StatusBadRequest == 400

---------------------------------------------------------------------------
(* encoding/json, decoding into the destination type of the tests,         *)
(* struct { Key string `json:"key"` }.  The texts handled are objects      *)
(* whose members are strings, strings and null, without white space or     *)
(* escapes: every body the model draws is one of these or fails in its     *)
(* first character.                                                        *)

Quote == "\""

errEOF == errorsNew(100, sEOF)
errUnexpectedEOF ==
    errorsNew(101, <<"u", "n", "e", "x", "p", "e", "c", "t", "e", "d", " ">> \o sEOF)
errSyntax ==
    errorsNew(102, <<"i", "n", "v", "a", "l", "i", "d", " ", "c", "h", "a", "r">>)
errUnmarshalType ==
    errorsNew(103, <<"c", "a", "n", "n", "o", "t", " ", "u", "n", "m", "a", "r",
                     "s", "h", "a", "l">>)

ToLower(c) ==
    CASE c = "K" -> "k" [] c = "E" -> "e" [] c = "Y" -> "y" [] OTHER -> c

EqualFold(s, t) ==
    /\ Len(s) = Len(t)
    /\ \A k \in 1..Len(s) : ToLower(s[k]) = ToLower(t[k])

sKey == <<"k", "e", "y">>

\* a string literal starting at s[p] = Quote
ParseString(s, p) ==
    LET ends == {q \in (p + 1)..Len(s) : s[q] = Quote}
    IN  IF ends = {} THEN [ok |-> FALSE]
        ELSE LET q == CHOOSE x \in ends : \A y \in ends : x <= y
             IN  [ok |-> TRUE, val |-> SubSeq(s, p + 1, q - 1), next |-> q + 1]

RECURSIVE ParseMembers(_, _, _, _)
\* the members of an object from s[p] on, stored into d; first: no member yet
ParseMembers(s, p, d, first) ==
    IF p > Len(s) THEN [err |-> errUnexpectedEOF, data |-> d]
    ELSE IF s[p] = "}" /\ first THEN [err |-> NilErr, data |-> d]
    ELSE IF s[p] # Quote THEN [err |-> errSyntax, data |-> d]
    ELSE
      LET member(name, val) ==
              IF ~val.ok THEN [err |-> errUnexpectedEOF, data |-> d]
              ELSE
                LET d2 == IF EqualFold(name.val, sKey)
                          THEN [d EXCEPT !.Key = val.val] ELSE d
                IN  IF val.next > Len(s) THEN [err |-> errUnexpectedEOF, data |-> d]
                    ELSE IF s[val.next] = "}" THEN [err |-> NilErr, data |-> d2]
                    ELSE IF s[val.next] = ","
                         THEN ParseMembers(s, val.next + 1, d2, FALSE)
                    ELSE [err |-> errSyntax, data |-> d]
          named(name) ==
              IF ~name.ok THEN [err |-> errUnexpectedEOF, data |-> d]
              ELSE IF name.next > Len(s) THEN [err |-> errUnexpectedEOF, data |-> d]
              ELSE IF s[name.next] # ":" THEN [err |-> errSyntax, data |-> d]
              ELSE IF name.next + 1 > Len(s) THEN [err |-> errUnexpectedEOF, data |-> d]
              ELSE IF s[name.next + 1] # Quote THEN [err |-> errSyntax, data |-> d]
              ELSE CHOOSE res \in {member(name, val) :
                                      val \in {ParseString(s, name.next + 1)}} : TRUE
      IN  CHOOSE res \in {named(name) : name \in {ParseString(s, p)}} : TRUE

\* json.Unmarshal of the first value of text s into d.  The value is
\* scanned to its end before anything is stored, so d is kept on an error.
Unmarshal(s, d) ==
    IF Len(s) = 0 THEN [err |-> errEOF, data |-> d]
    ELSE IF s[1] = "{"
         THEN LET r == ParseMembers(s, 2, d, TRUE)
              IN  IF r.err = NilErr THEN r ELSE [err |-> r.err, data |-> d]
    ELSE IF s[1] = Quote
         THEN IF ParseString(s, 1).ok THEN [err |-> errUnmarshalType, data |-> d]
              ELSE [err |-> errUnexpectedEOF, data |-> d]
    ELSE IF Len(s) >= 4 /\ SubSeq(s, 1, 4) = <<"n", "u", "l", "l">>
         THEN [err |-> NilErr, data |-> d]
    ELSE [err |-> errSyntax, data |-> d]

\* jsonDecode(r, data): json.NewDecoder(r).Decode(data)
\* (the stream is read once: rd is bound to what the read gave)
jsonDecode(body, d) ==
    LET decoded(rd) ==
            IF rd.err # NilErr THEN [err |-> rd.err, data |-> d, body |-> body]
            ELSE LET u == Unmarshal(rd.bytes, d)
                 IN  [err |-> u.err, data |-> u.data, body |-> rd.body]
    IN  CHOOSE res \in {decoded(rd) : rd \in {ioReadAll(body)}} : TRUE

---------------------------------------------------------------------------
(* do's two steps after the sender returned.  Both take and give back the  *)
(* response, whose body they read and close.                               *)

\* as handleUnsuccessfulResponse, with the status compared by > for >=
handleUnsuccessfulResponseAbove(url, r, receivedError) ==
    IF r # NilResp /\ r.StatusCode > StatusBadRequest
    THEN LET rd == ioReadAll(r.Body)
             closed == [r EXCEPT !.Body = Close(rd.body)]
         IN  IF rd.err # NilErr
             THEN [err |-> HttpError(url, r.StatusCode, <<>>,
                                     Wrap(rd.err, sParsingResponse)),
                   resp |-> closed]
             ELSE [err |-> HttpError(url, r.StatusCode, rd.bytes, receivedError),
                   resp |-> closed]
    ELSE IF receivedError # NilErr
    THEN [err |-> HttpError(url, 0, <<>>, receivedError), resp |-> r]
    ELSE [err |-> NilErr, resp |-> r]

\* as handleUnsuccessfulResponse, without the test receivedError != nil
handleUnsuccessfulResponseAlways(url, r, receivedError) ==
    IF r # NilResp /\ r.StatusCode >= StatusBadRequest
    THEN LET rd == ioReadAll(r.Body)
             closed == [r EXCEPT !.Body = Close(rd.body)]
         IN  IF rd.err # NilErr
             THEN [err |-> HttpError(url, r.StatusCode, <<>>,
                                     Wrap(rd.err, sParsingResponse)),
                   resp |-> closed]
             ELSE [err |-> HttpError(url, r.StatusCode, rd.bytes, receivedError),
                   resp |-> closed]
    ELSE [err |-> HttpError(url, 0, <<>>, receivedError), resp |-> r]

\* as handleUnsuccessfulResponse, without its second if statement
handleUnsuccessfulResponseStatusOnly(url, r, receivedError) ==
    IF r # NilResp /\ r.StatusCode >= StatusBadRequest
    THEN LET rd == ioReadAll(r.Body)
             closed == [r EXCEPT !.Body = Close(rd.body)]
         IN  IF rd.err # NilErr
             THEN [err |-> HttpError(url, r.StatusCode, <<>>,
                                     Wrap(rd.err, sParsingResponse)),
                   resp |-> closed]
             ELSE [err |-> HttpError(url, r.StatusCode, rd.bytes, receivedError),
                   resp |-> closed]
    ELSE [err |-> NilErr, resp |-> r]

\* as handleUnsuccessfulResponse, without the return on a failed read
handleUnsuccessfulResponseNoMask(url, r, receivedError) ==
    IF r # NilResp /\ r.StatusCode >= StatusBadRequest
    THEN LET rd == ioReadAll(r.Body)
             closed == [r EXCEPT !.Body = Close(rd.body)]
         IN  [err |-> HttpError(url, r.StatusCode, rd.bytes, receivedError),
              resp |-> closed]
    ELSE IF receivedError # NilErr
    THEN [err |-> HttpError(url, 0, <<>>, receivedError), resp |-> r]
    ELSE [err |-> NilErr, resp |-> r]

\* as handleUnsuccessfulResponse, with the second if statement as the else
\* branch of resp != nil
handleUnsuccessfulResponseElse(url, r, receivedError) ==
    IF r # NilResp
    THEN IF r.StatusCode >= StatusBadRequest
         THEN LET rd == ioReadAll(r.Body)
                  closed == [r EXCEPT !.Body = Close(rd.body)]
              IN  IF rd.err # NilErr
                  THEN [err |-> HttpError(url, r.StatusCode, <<>>,
                                          Wrap(rd.err, sParsingResponse)),
                        resp |-> closed]
                  ELSE [err |-> HttpError(url, r.StatusCode, rd.bytes,
                                          receivedError),
                        resp |-> closed]
         ELSE [err |-> NilErr, resp |-> r]
    ELSE IF receivedError # NilErr
    THEN [err |-> HttpError(url, 0, <<>>, receivedError), resp |-> r]
    ELSE [err |-> NilErr, resp |-> r]

handleUnsuccessfulResponseNoClose(url, r, receivedError) ==
    IF r # NilResp /\ r.StatusCode >= StatusBadRequest
    THEN LET rd == ioReadAll(r.Body)
             read == [r EXCEPT !.Body = rd.body]
         IN  IF rd.err # NilErr
             THEN [err |-> HttpError(url, r.StatusCode, <<>>,
                                     Wrap(rd.err, sParsingResponse)),
                   resp |-> read]
             ELSE [err |-> HttpError(url, r.StatusCode, rd.bytes, receivedError),
                   resp |-> read]
    ELSE IF receivedError # NilErr
    THEN [err |-> HttpError(url, 0, <<>>, receivedError), resp |-> r]
    ELSE [err |-> NilErr, resp |-> r]

\* handleUnsuccessfulResponse(url, resp, receivedError)
handleUnsuccessfulResponse(url, r, receivedError) ==
    IF r # NilResp /\ r.StatusCode >= StatusBadRequest
    THEN LET rd == ioReadAll(r.Body)
             closed == [r EXCEPT !.Body = Close(rd.body)]
         IN  IF rd.err # NilErr
             THEN [err |-> HttpError(url, r.StatusCode, <<>>,
                                     Wrap(rd.err, sParsingResponse)),
                   resp |-> closed]
             ELSE [err |-> HttpError(url, r.StatusCode, rd.bytes, receivedError),
                   resp |-> closed]
    ELSE IF receivedError # NilErr
    THEN [err |-> HttpError(url, 0, <<>>, receivedError), resp |-> r]
    ELSE [err |-> NilErr, resp |-> r]

\* as decodeResponse, decoding into a copy of the destination
decodeResponseIntoCopy(url, r, dst, d) ==
    IF dst # "nil" /\ r # NilResp
    THEN LET dec == jsonDecode(r.Body, d)
             closed == [r EXCEPT !.Body = Close(dec.body)]
         IN  IF dec.err # NilErr
             THEN [err |-> HttpError(url, r.StatusCode, <<>>,
                                     Wrap(dec.err, sDecodingResponse)),
                   resp |-> closed, data |-> d, decoded |-> 1]
             ELSE [err |-> NilErr, resp |-> closed, data |-> d, decoded |-> 1]
    ELSE [err |-> NilErr, resp |-> r, data |-> d, decoded |-> 0]

\* as decodeResponse, leaving StatusCode out of the HttpError
decodeResponseNoStatus(url, r, dst, d) ==
    IF dst # "nil" /\ r # NilResp
    THEN LET dec == jsonDecode(r.Body, d)
             closed == [r EXCEPT !.Body = Close(dec.body)]
         IN  IF dec.err # NilErr
             THEN [err |-> HttpError(url, 0, <<>>,
                                     Wrap(dec.err, sDecodingResponse)),
                   resp |-> closed, data |-> dec.data, decoded |-> 1]
             ELSE [err |-> NilErr, resp |-> closed, data |-> dec.data,
                   decoded |-> 1]
    ELSE [err |-> NilErr, resp |-> r, data |-> d, decoded |-> 0]

decodeResponseAlwaysCloses(url, r, dst, d) ==
    IF r # NilResp
    THEN IF dst # "nil"
         THEN LET dec == jsonDecode(r.Body, d)
                  closed == [r EXCEPT !.Body = Close(dec.body)]
              IN  IF dec.err # NilErr
                  THEN [err |-> HttpError(url, r.StatusCode, <<>>,
                                          Wrap(dec.err, sDecodingResponse)),
                        resp |-> closed, data |-> dec.data, decoded |-> 1]
                  ELSE [err |-> NilErr, resp |-> closed, data |-> dec.data,
                        decoded |-> 1]
         ELSE [err |-> NilErr, resp |-> [r EXCEPT !.Body = Close(r.Body)],
               data |-> d, decoded |-> 0]
    ELSE [err |-> NilErr, resp |-> r, data |-> d, decoded |-> 0]

decodeResponseRawError(url, r, dst, d) ==
    IF dst # "nil" /\ r # NilResp
    THEN LET dec == jsonDecode(r.Body, d)
             closed == [r EXCEPT !.Body = Close(dec.body)]
         IN  IF dec.err # NilErr
             THEN [err |-> Wrap(dec.err, sDecodingResponse),
                   resp |-> closed, data |-> dec.data, decoded |-> 1]
             ELSE [err |-> NilErr, resp |-> closed, data |-> dec.data,
                   decoded |-> 1]
    ELSE [err |-> NilErr, resp |-> r, data |-> d, decoded |-> 0]

\* decodeResponse(url, resp, v); d is the value v points to
decodeResponse(url, r, dst, d) ==
    IF dst # "nil" /\ r # NilResp
    THEN LET dec == jsonDecode(r.Body, d)
             closed == [r EXCEPT !.Body = Close(dec.body)]
         IN  IF dec.err # NilErr
             THEN [err |-> HttpError(url, r.StatusCode, <<>>,
                                     Wrap(dec.err, sDecodingResponse)),
                   resp |-> closed, data |-> dec.data, decoded |-> 1]
             ELSE [err |-> NilErr, resp |-> closed, data |-> dec.data,
                   decoded |-> 1]
    ELSE [err |-> NilErr, resp |-> r, data |-> d, decoded |-> 0]

---------------------------------------------------------------------------
(* The client: options, New and what New patches.                          *)

NilClient == [kind |-> "nil"]
NilTransport == [kind |-> "nil"]

\* new(Client): every field at its zero value
ZeroClient ==
    [httpClient |-> NilClient, retryableHttpClient |-> NilClient,
     timeout |-> 0, maxIdleConns |-> 0, maxIdleConnsPerHost |-> 0,
     maxConnsPerHost |-> 0, maxRetries |-> 0, checkRetryPolicy |-> "nil",
     retryWaitMin |-> 0, retryWaitMax |-> 0, requestDumpLogger |-> "nil",
     dumpRequestBody |-> FALSE, responseDumpLogger |-> "nil",
     dumpResponseBody |-> FALSE]

WithHttpClient(httpClient) == [name |-> "WithHttpClient", httpClient |-> httpClient]
WithTimeout(t) == [name |-> "WithTimeout", n |-> t]
WithMaxIdleConns(n) == [name |-> "WithMaxIdleConns", n |-> n]
WithMaxIdleConnsPerHost(n) == [name |-> "WithMaxIdleConnsPerHost", n |-> n]
WithMaxConnsPerHost(n) == [name |-> "WithMaxConnsPerHost", n |-> n]
WithMaxRetries(n) == [name |-> "WithMaxRetries", n |-> n]
WithRetryWaitMin(n) == [name |-> "WithRetryWaitMin", n |-> n]
WithRetryWaitMax(n) == [name |-> "WithRetryWaitMax", n |-> n]
WithCheckRetryPolicy(checkRetryPolicy) ==
    [name |-> "WithCheckRetryPolicy", checkRetryPolicy |-> checkRetryPolicy]
WithRequestDumpLogger(requestDumpLogger, dumpRequestBody) ==
    [name |-> "WithRequestDumpLogger", requestDumpLogger |-> requestDumpLogger,
     dumpRequestBody |-> dumpRequestBody]
WithResponseDumpLogger(responseDumpLogger, dumpResponseBody) ==
    [name |-> "WithResponseDumpLogger", responseDumpLogger |-> responseDumpLogger,
     dumpResponseBody |-> dumpResponseBody]

\* option(client)
Option(option, c) ==
    CASE option.name = "WithHttpClient" -> [c EXCEPT !.httpClient = option.httpClient]
      [] option.name = "WithTimeout" -> [c EXCEPT !.timeout = option.n]
      [] option.name = "WithMaxIdleConns" -> [c EXCEPT !.maxIdleConns = option.n]
      [] option.name = "WithMaxIdleConnsPerHost" ->
            [c EXCEPT !.maxIdleConnsPerHost = option.n]
      [] option.name = "WithMaxConnsPerHost" -> [c EXCEPT !.maxConnsPerHost = option.n]
      [] option.name = "WithMaxRetries" -> [c EXCEPT !.maxRetries = option.n]
      [] option.name = "WithRetryWaitMin" -> [c EXCEPT !.retryWaitMin = option.n]
      [] option.name = "WithRetryWaitMax" -> [c EXCEPT !.retryWaitMax = option.n]
      [] option.name = "WithCheckRetryPolicy" ->
            [c EXCEPT !.checkRetryPolicy = option.checkRetryPolicy]
      [] option.name = "WithRequestDumpLogger" ->
            [c EXCEPT !.requestDumpLogger = option.requestDumpLogger,
                      !.dumpRequestBody = option.dumpRequestBody]
      [] option.name = "WithResponseDumpLogger" ->
            [c EXCEPT !.responseDumpLogger = option.responseDumpLogger,
                      !.dumpResponseBody = option.dumpResponseBody]

RECURSIVE ApplyOptions(_, _)
ApplyOptions(options, c) ==
    IF options = <<>> THEN c
    ELSE ApplyOptions(Tail(options), Option(Head(options), c))

\* newClient(options)
newClient(options) == ApplyOptions(options, ZeroClient)

\* retryablehttp.NewClient(): the library's defaults, which New patches
retryablehttpNewClient ==
    [kind |-> "retryablehttp.Client", HTTPClient |-> NilClient,
     RetryWaitMin |-> 1, RetryWaitMax |-> 30, RetryMax |-> 4,
     CheckRetry |-> "DefaultRetryPolicy"]

\* http.DefaultTransport.(*http.Transport).Clone()
DefaultTransport ==
    [kind |-> "http.Transport", MaxIdleConns |-> 100, MaxIdleConnsPerHost |-> 0,
     MaxConnsPerHost |-> 0]

\* castClientTransport(tr)
castClientTransport(tr) == tr.kind = "http.Transport"

patchRetryableClientKeepsDefaultPolicy(c) ==
    [c EXCEPT !.retryableHttpClient =
        [@ EXCEPT !.RetryMax = c.maxRetries,
                  !.RetryWaitMin = c.retryWaitMin,
                  !.RetryWaitMax = c.retryWaitMax,
                  !.HTTPClient = c.httpClient,
                  !.CheckRetry = IF c.checkRetryPolicy # "nil"
                                 THEN c.checkRetryPolicy ELSE @]]

patchRetryableClientKeepsRetryMax(c) ==
    [c EXCEPT !.retryableHttpClient =
        [@ EXCEPT !.RetryWaitMin = c.retryWaitMin,
                  !.RetryWaitMax = c.retryWaitMax,
                  !.HTTPClient = c.httpClient,
                  !.CheckRetry = IF c.checkRetryPolicy # "nil"
                                 THEN c.checkRetryPolicy ELSE "doNotRetryPolicy"]]

patchRetryableClientOneMore(c) ==
    [c EXCEPT !.retryableHttpClient =
        [@ EXCEPT !.RetryMax = c.maxRetries + 1,
                  !.RetryWaitMin = c.retryWaitMin,
                  !.RetryWaitMax = c.retryWaitMax,
                  !.HTTPClient = c.httpClient,
                  !.CheckRetry = IF c.checkRetryPolicy # "nil"
                                 THEN c.checkRetryPolicy ELSE "doNotRetryPolicy"]]

\* patchRetryableClient(client)
patchRetryableClient(c) ==
    [c EXCEPT !.retryableHttpClient =
        [@ EXCEPT !.RetryMax = c.maxRetries,
                  !.RetryWaitMin = c.retryWaitMin,
                  !.RetryWaitMax = c.retryWaitMax,
                  !.HTTPClient = c.httpClient,
                  !.CheckRetry = IF c.checkRetryPolicy # "nil"
                                 THEN c.checkRetryPolicy ELSE "doNotRetryPolicy"]]

patchTransportSwapped(c) ==
    LET tr == IF c.httpClient.Transport = NilTransport THEN DefaultTransport
              ELSE c.httpClient.Transport
    IN  IF ~castClientTransport(tr)
        THEN [c EXCEPT !.httpClient.Transport = tr]
        ELSE [c EXCEPT !.httpClient.Transport =
                 [tr EXCEPT !.MaxIdleConns = c.maxIdleConns,
                            !.MaxConnsPerHost = c.maxIdleConnsPerHost,
                            !.MaxIdleConnsPerHost = c.maxConnsPerHost]]

\* patchTransport(client)
patchTransport(c) ==
    LET tr == IF c.httpClient.Transport = NilTransport THEN DefaultTransport
              ELSE c.httpClient.Transport
    IN  IF ~castClientTransport(tr)
        THEN [c EXCEPT !.httpClient.Transport = tr]
        ELSE [c EXCEPT !.httpClient.Transport =
                 [tr EXCEPT !.MaxIdleConns = c.maxIdleConns,
                            !.MaxConnsPerHost = c.maxConnsPerHost,
                            !.MaxIdleConnsPerHost = c.maxIdleConnsPerHost]]

NewTimeoutOverrides(options) ==
    LET c0 == newClient(options)
        c1 == [c0 EXCEPT !.retryableHttpClient = retryablehttpNewClient]
        c2 == IF c1.httpClient = NilClient
              THEN [c1 EXCEPT !.httpClient =
                       [kind |-> "http.Client", Timeout |-> c1.timeout,
                        Transport |-> NilTransport]]
              ELSE [c1 EXCEPT !.httpClient.Timeout = c1.timeout]
    IN  patchRetryableClient(patchTransport(c2))

\* New(options...)
New(options) ==
    LET c0 == newClient(options)
        c1 == [c0 EXCEPT !.retryableHttpClient = retryablehttpNewClient]
        c2 == IF c1.httpClient = NilClient
              THEN [c1 EXCEPT !.httpClient =
                       [kind |-> "http.Client", Timeout |-> c1.timeout,
                        Transport |-> NilTransport]]
              ELSE c1
    IN  patchRetryableClient(patchTransport(c2))

---------------------------------------------------------------------------
(* Retry policies: (resp, err) -> (retry, err).                            *)

\* doNotRetryPolicy, the default of this package
doNotRetryPolicy(r, x) == [retry |-> FALSE, err |-> NilErr]

\* policies.DoNotRetry
DoNotRetry(r, x) == [retry |-> FALSE, err |-> NilErr]

EofExact(r, x) ==
    IF x # NilErr THEN [retry |-> ErrorText(x) = sEOF, err |-> x]
    ELSE [retry |-> FALSE, err |-> x]

\* policies.Eof
Eof(r, x) ==
    IF x # NilErr THEN [retry |-> Contains(ErrorText(x), sEOF), err |-> x]
    ELSE [retry |-> FALSE, err |-> x]

\* the custom policy of TestNew: retry a 400
retryBadRequest(r, x) ==
    IF r # NilResp /\ r.StatusCode = StatusBadRequest
    THEN [retry |-> TRUE, err |-> x]
    ELSE [retry |-> FALSE, err |-> x]

\* retryablehttp.DefaultRetryPolicy, as the comment on doNotRetryPolicy
\* describes it: it retries a transport error and a status >= 500
DefaultRetryPolicy(r, x) ==
    IF x # NilErr THEN [retry |-> TRUE, err |-> NilErr]
    ELSE IF r # NilResp /\ r.StatusCode >= 500
    THEN [retry |-> TRUE, err |-> errorsNew(104, <<"5", "x", "x">>)]
    ELSE [retry |-> FALSE, err |-> NilErr]

\* c.CheckRetry(ctx, resp, err)
CheckRetry(policy, r, x) ==
    CASE policy = "doNotRetryPolicy" -> doNotRetryPolicy(r, x)
      [] policy = "policies.DoNotRetry" -> DoNotRetry(r, x)
      [] policy = "policies.Eof" -> Eof(r, x)
      [] policy = "retryBadRequest" -> retryBadRequest(r, x)
      [] policy = "DefaultRetryPolicy" -> DefaultRetryPolicy(r, x)

---------------------------------------------------------------------------
(* The inputs the model draws.                                             *)

sPOST == <<"P", "O", "S", "T">>

Requests ==
    {[Method |-> <<"G", "E", "T">>, URL |-> <<"h", "/", "a">>],
     [Method |-> sPOST, URL |-> <<"h", "/", "b">>]}

NilRequest == [kind |-> "nil"]

\* the zero value of the destination type, and a value a caller left in it
ZeroData == [Key |-> <<>>]
Destinations == {ZeroData, [Key |-> <<"o", "l", "d">>]}

bEmpty == <<>>
bKeyValue ==
    <<"{", Quote, "k", "e", "y", Quote, ":", Quote, "v", "a", "l", "u", "e", Quote, "}">>
bTruncated == <<"{", Quote, "k", "e", "y", Quote, ":", Quote, "v", "a">>
bText == <<"o", "o", "p", "s">>
bFolded ==
    <<"{", Quote, "x", Quote, ":", Quote, "y", Quote, ",",
      Quote, "K", "E", "Y", Quote, ":", Quote, "v", Quote, "}">>

Statuses == {200, 399, 400, 502}

\* the error of a body stream that fails while it is read
errRead == errorsNew(1, <<"r", "e", "s", "e", "t">>)

\* the errors of one attempt: the connection ends early, or is refused
errConnEOF == errorsNew(2, <<"G", "e", "t", ":", " ">> \o sEOF)
errRefused == errorsNew(3, <<"r", "e", "f", "u", "s", "e", "d">>)
TransportErrors == {errConnEOF, errRefused}

Responses ==
    {Response(s, b, NilErr) :
        s \in Statuses, b \in {bEmpty, bKeyValue, bTruncated, bText, bFolded}}
    \cup {Response(s, bKeyValue, errRead) : s \in Statuses}

\* c.HTTPClient.Do: a response or an error, never both
AttemptOutcomes ==
    {[resp |-> r, err |-> NilErr] : r \in Responses}
    \cup {[resp |-> NilResp, err |-> x] : x \in TransportErrors}

\* what a replaced retryableHttpClientDo may return
MockOutcomes ==
    {[resp |-> r, err |-> x] :
        r \in Responses \cup {NilResp}, x \in TransportErrors \cup {NilErr}}

Policies == {"policies.DoNotRetry", "policies.Eof", "retryBadRequest"}

\* the option lists New is called with
OptionLists ==
    {a \o b \o c :
        a \in {<<>>} \cup {<<WithMaxRetries(n)>> : n \in 0..MaxRetries},
        b \in {<<>>} \cup {<<WithCheckRetryPolicy(p)>> : p \in Policies},
        c \in {<<>>} \cup {<<WithRequestDumpLogger("logger", w)>> : w \in BOOLEAN}}

---------------------------------------------------------------------------
(* retryablehttp's Client.Do, the sender behind retryableHttpClientDo.     *)
(* The library is a dependency of the repository.  Its loop is modelled as *)
(* the repository relies on it: TestEofRetryPolicy expects, for            *)
(* WithMaxRetries(1), the error "giving up after 2 attempt(s): ... EOF".   *)
(* The loop index i counts the retries made, a retry needs RetryMax - i > 0,*)
(* and Do returns the last response only when the attempt had no error and *)
(* the policy asked for no retry and gave no error; otherwise it returns   *)
(* no response and the giving-up error, which wraps the policy's error or, *)
(* without one, the attempt's.                                             *)

\* c.drainBody(resp.Body): read to the end and close
drainBody(r) ==
    [r EXCEPT !.Body = Close([r.Body EXCEPT !.off = Len(r.Body.data)])]

\* fmt.Errorf("%s %s giving up after %d attempt(s): %w", ...)
GivingUp(method, url, n, cause) ==
    [kind |-> "wrapError",
     msg |-> method \o <<" ">> \o url \o sGivingUpAfter \o Itoa(n) \o sAttempts
             \o (IF cause = NilErr THEN <<>> ELSE sColonSpace \o ErrorText(cause)),
     cause |-> cause]

\* what Do returns once its loop has ended
DoReturn(r, n, ar, de, sr, ce) ==
    IF de = NilErr /\ ce = NilErr /\ ~sr
    THEN [resp |-> ar, err |-> NilErr]
    ELSE [resp |-> NilResp,
          err |-> GivingUp(r.Method, r.URL, n, IF ce # NilErr THEN ce ELSE de)]

---------------------------------------------------------------------------
(* The logical call.                                                       *)

errDump == errorsNew(4, <<"d", "u", "m", "p">>)

\* dumpRequestOut(req, body)
dumpRequestOut(r, body, fails) ==
    IF fails THEN [dump |-> NilRequest, err |-> errDump]
    ELSE [dump |-> [Method |-> r.Method, URL |-> r.URL, body |-> body],
          err |-> NilErr]

logRequestDumpAlways(c, r, fails) ==
    IF c.requestDumpLogger # "nil"
    THEN LET d == dumpRequestOut(r, c.dumpRequestBody, fails)
         IN  [calls |-> <<[fn |-> "dumpRequestOut", req |-> r,
                           body |-> c.dumpRequestBody, err |-> d.err]>>,
              logged |-> <<d.dump>>]
    ELSE [calls |-> <<>>, logged |-> <<>>]

\* c.logRequestDump(req): the calls of dumpRequestOut it makes and the dumps
\* it hands to the logger
logRequestDump(c, r, fails) ==
    IF c.requestDumpLogger # "nil"
    THEN LET d == dumpRequestOut(r, c.dumpRequestBody, fails)
         IN  [calls |-> <<[fn |-> "dumpRequestOut", req |-> r,
                           body |-> c.dumpRequestBody, err |-> d.err]>>,
              logged |-> IF d.err = NilErr THEN <<d.dump>> ELSE <<>>]
    ELSE [calls |-> <<>>, logged |-> <<>>]

\* dumpResponse(resp, body): with body it reads the body and puts the bytes
\* back, so the stream is left as it was
dumpResponse(r, body, fails) ==
    IF fails THEN [dump |-> NilResp, err |-> errDump]
    ELSE IF body /\ r.Body.readErr # NilErr
    THEN [dump |-> NilResp, err |-> r.Body.readErr]
    ELSE [dump |-> [StatusCode |-> r.StatusCode, body |-> body,
                    data |-> IF body
                             THEN SubSeq(r.Body.data, r.Body.off + 1, Len(r.Body.data))
                             ELSE <<>>],
          err |-> NilErr]

logResponseDumpNilToo(c, r, fails) ==
    IF c.responseDumpLogger # "nil"
    THEN LET d == IF r = NilResp THEN [dump |-> NilResp, err |-> NilErr]
                  ELSE dumpResponse(r, c.dumpResponseBody, fails)
         IN  [calls |-> <<[fn |-> "dumpResponse", resp |-> r,
                           body |-> c.dumpResponseBody, err |-> d.err]>>,
              logged |-> IF d.err = NilErr THEN <<d.dump>> ELSE <<>>]
    ELSE [calls |-> <<>>, logged |-> <<>>]

\* c.logResponseDump(resp): the calls of dumpResponse it makes and the dumps
\* it hands to the logger
logResponseDump(c, r, fails) ==
    IF c.responseDumpLogger # "nil" /\ r # NilResp
    THEN LET d == dumpResponse(r, c.dumpResponseBody, fails)
         IN  [calls |-> <<[fn |-> "dumpResponse", resp |-> r,
                           body |-> c.dumpResponseBody, err |-> d.err]>>,
              logged |-> IF d.err = NilErr THEN <<d.dump>> ELSE <<>>]
    ELSE [calls |-> <<>>, logged |-> <<>>]

\* as sendRequest, with a request dump logger that is used once and dropped
sendRequestDropsLogger(r, dst, d0, fails) ==
    /\ pc = "Idle"
    /\ req' = r
    /\ v' = dst
    /\ data' = d0
    /\ LET l == logRequestDump(client, r, fails)
       IN  /\ requestDumps' = l.logged
           /\ dumpCalls' = l.calls
    /\ client' = [client EXCEPT !.requestDumpLogger = "nil"]
    /\ responseDumps' = <<>>
    /\ i' = 0
    /\ attempt' = 0
    /\ attemptResp' = NilResp
    /\ doErr' = NilErr
    /\ shouldRetry' = FALSE
    /\ checkErr' = NilErr
    /\ resp' = NilResp
    /\ err' = NilErr
    /\ retResp' = NilResp
    /\ retErr' = NilErr
    /\ decodes' = 0
    /\ pc' = "Sending"
    /\ UNCHANGED retryableHttpClientDo
    /\ UNCHANGED errVars

\* c.sendRequest(req, v) up to the call of the sender
sendRequest(r, dst, d0, fails) ==
    /\ pc = "Idle"
    /\ req' = r
    /\ v' = dst
    /\ data' = d0
    /\ LET l == logRequestDump(client, r, fails)
       IN  /\ requestDumps' = l.logged
           /\ dumpCalls' = l.calls
    /\ responseDumps' = <<>>
    /\ i' = 0
    /\ attempt' = 0
    /\ attemptResp' = NilResp
    /\ doErr' = NilErr
    /\ shouldRetry' = FALSE
    /\ checkErr' = NilErr
    /\ resp' = NilResp
    /\ err' = NilErr
    /\ retResp' = NilResp
    /\ retErr' = NilErr
    /\ decodes' = 0
    /\ pc' = "Sending"
    /\ UNCHANGED <<client, retryableHttpClientDo>>
    /\ UNCHANGED errVars

SendRequest ==
    \E r \in Requests, fails \in BOOLEAN : sendRequest(r, "nil", ZeroData, fails)

SendRequestAndUnmarshallJsonResponse ==
    \E r \in Requests, d0 \in Destinations, fails \in BOOLEAN :
        sendRequest(r, "ptr", d0, fails)

\* Do: one attempt, and the policy's decision on its outcome
Attempt ==
    /\ pc = "Sending"
    /\ retryableHttpClientDo = "retryablehttp"
    /\ \E o \in AttemptOutcomes :
          LET d == CheckRetry(client.retryableHttpClient.CheckRetry, o.resp, o.err)
          IN  /\ attempt' = attempt + 1
              /\ attemptResp' = o.resp
              /\ doErr' = o.err
              /\ shouldRetry' = d.retry
              /\ checkErr' = d.err
    /\ pc' = "PolicyCheck"
    /\ UNCHANGED <<client, retryableHttpClientDo, req, v, data, i, resp, err,
                   retResp, retErr, requestDumps, responseDumps, dumpCalls,
                   decodes>>
    /\ UNCHANGED errVars

\* Do: the policy asked for a retry and retries remain
Retry ==
    /\ pc = "PolicyCheck"
    /\ shouldRetry
    /\ client.retryableHttpClient.RetryMax - i > 0
    /\ attemptResp' = IF doErr = NilErr THEN drainBody(attemptResp) ELSE attemptResp
    /\ i' = i + 1
    /\ pc' = "Sending"
    /\ UNCHANGED <<client, retryableHttpClientDo, req, v, data, attempt, doErr,
                   shouldRetry, checkErr, resp, err, retResp, retErr,
                   requestDumps, responseDumps, dumpCalls, decodes>>
    /\ UNCHANGED errVars

\* Do: the loop ends and Do returns to do
Stop ==
    /\ pc = "PolicyCheck"
    /\ ~(shouldRetry /\ client.retryableHttpClient.RetryMax - i > 0)
    /\ LET ret == DoReturn(req, attempt, attemptResp, doErr, shouldRetry, checkErr)
       IN  /\ resp' = ret.resp
           /\ err' = ret.err
    /\ pc' = "DumpingResponse"
    /\ UNCHANGED <<client, retryableHttpClientDo, req, v, data, i, attempt,
                   attemptResp, doErr, shouldRetry, checkErr, retResp, retErr,
                   requestDumps, responseDumps, dumpCalls, decodes>>
    /\ UNCHANGED errVars

\* a retryableHttpClientDo put in place of the real one returns
MockDo ==
    /\ pc = "Sending"
    /\ retryableHttpClientDo = "mock"
    /\ \E o \in MockOutcomes :
          /\ resp' = o.resp
          /\ err' = o.err
    /\ pc' = "DumpingResponse"
    /\ UNCHANGED <<client, retryableHttpClientDo, req, v, data, i, attempt,
                   attemptResp, doErr, shouldRetry, checkErr, retResp, retErr,
                   requestDumps, responseDumps, dumpCalls, decodes>>
    /\ UNCHANGED errVars

\* the sender has returned: c.logResponseDump(resp)
DumpResponse ==
    /\ pc = "DumpingResponse"
    /\ \E fails \in BOOLEAN :
          LET l == logResponseDump(client, resp, fails)
          IN  /\ responseDumps' = l.logged
              /\ dumpCalls' = dumpCalls \o l.calls
    /\ pc' = "Classifying"
    /\ UNCHANGED <<client, retryableHttpClientDo, req, v, data, i, attempt,
                   attemptResp, doErr, shouldRetry, checkErr, resp, err,
                   retResp, retErr, requestDumps, decodes>>
    /\ UNCHANGED errVars

ClassifyFallsThrough ==
    /\ pc = "Classifying"
    /\ LET h == handleUnsuccessfulResponse(req.URL, resp, err)
       IN  /\ resp' = h.resp
           /\ IF h.err # NilErr
              THEN /\ retResp' = h.resp
                   /\ retErr' = h.err
              ELSE UNCHANGED <<retResp, retErr>>
    /\ pc' = "Decoding"
    /\ UNCHANGED <<client, retryableHttpClientDo, req, v, data, i, attempt,
                   attemptResp, doErr, shouldRetry, checkErr, err,
                   requestDumps, responseDumps, dumpCalls, decodes>>
    /\ UNCHANGED errVars

\* do: handleUnsuccessfulResponse, and the return on its error
Classify ==
    /\ pc = "Classifying"
    /\ LET h == handleUnsuccessfulResponse(req.URL, resp, err)
       IN  /\ resp' = h.resp
           /\ IF h.err # NilErr
              THEN /\ retResp' = h.resp
                   /\ retErr' = h.err
                   /\ pc' = "Done"
              ELSE /\ UNCHANGED <<retResp, retErr>>
                   /\ pc' = "Decoding"
    /\ UNCHANGED <<client, retryableHttpClientDo, req, v, data, i, attempt,
                   attemptResp, doErr, shouldRetry, checkErr, err,
                   requestDumps, responseDumps, dumpCalls, decodes>>
    /\ UNCHANGED errVars

\* do: decodeResponse, and the return
Decode ==
    /\ pc = "Decoding"
    /\ \E d \in {decodeResponse(req.URL, resp, v, data)} :
           /\ resp' = d.resp
           /\ data' = d.data
           /\ decodes' = decodes + d.decoded
           /\ retResp' = d.resp
           /\ retErr' = d.err
    /\ pc' = "Done"
    /\ UNCHANGED <<client, retryableHttpClientDo, req, v, i, attempt,
                   attemptResp, doErr, shouldRetry, checkErr, err, requestDumps,
                   responseDumps, dumpCalls>>
    /\ UNCHANGED errVars

\* sendRequest returns (retResp, retErr) to its caller; its locals are gone
Return ==
    /\ pc = "Done"
    /\ pc' = "Idle"
    /\ req' = NilRequest
    /\ v' = "nil"
    /\ data' = ZeroData
    /\ i' = 0
    /\ attempt' = 0
    /\ attemptResp' = NilResp
    /\ doErr' = NilErr
    /\ shouldRetry' = FALSE
    /\ checkErr' = NilErr
    /\ resp' = NilResp
    /\ err' = NilErr
    /\ retResp' = NilResp
    /\ retErr' = NilErr
    /\ requestDumps' = <<>>
    /\ responseDumps' = <<>>
    /\ dumpCalls' = <<>>
    /\ decodes' = 0
    /\ UNCHANGED <<client, retryableHttpClientDo>>
    /\ UNCHANGED errVars

\* no call is under way on a client built without options
NoCall ==
    /\ client = New(<<>>)
    /\ retryableHttpClientDo = "retryablehttp"
    /\ pc = "Idle"
    /\ req = NilRequest
    /\ v = "nil"
    /\ data = ZeroData
    /\ i = 0
    /\ attempt = 0
    /\ attemptResp = NilResp
    /\ doErr = NilErr
    /\ shouldRetry = FALSE
    /\ checkErr = NilErr
    /\ resp = NilResp
    /\ err = NilErr
    /\ retResp = NilResp
    /\ retErr = NilErr
    /\ requestDumps = <<>>
    /\ responseDumps = <<>>
    /\ dumpCalls = <<>>
    /\ decodes = 0

NoArgs == [fn |-> "none"]
NoResult == [done |-> FALSE]

Init ==
    /\ \E options \in OptionLists : client = New(options)
    /\ retryableHttpClientDo \in {"retryablehttp", "mock"}
    /\ pc = "Idle"
    /\ req = NilRequest
    /\ v = "nil"
    /\ data = ZeroData
    /\ i = 0
    /\ attempt = 0
    /\ attemptResp = NilResp
    /\ doErr = NilErr
    /\ shouldRetry = FALSE
    /\ checkErr = NilErr
    /\ resp = NilResp
    /\ err = NilErr
    /\ retResp = NilResp
    /\ retErr = NilErr
    /\ requestDumps = <<>>
    /\ responseDumps = <<>>
    /\ dumpCalls = <<>>
    /\ decodes = 0
    /\ e = NilErr
    /\ targetErr = NilErr
    /\ args = NoArgs
    /\ out = NoResult

Next ==
    \/ SendRequest
    \/ SendRequestAndUnmarshallJsonResponse
    \/ Attempt
    \/ Retry
    \/ Stop
    \/ MockDo
    \/ DumpResponse
    \/ Classify
    \/ Decode
    \/ Return

Spec == Init /\ [][Next]_vars

\* the calls on clients with dump loggers
InitDump ==
    /\ \E a \in {<<>>, <<WithMaxRetries(1), WithCheckRetryPolicy("policies.Eof")>>},
          b \in {<<>>} \cup {<<WithRequestDumpLogger("logger", w)>> : w \in BOOLEAN},
          c \in {<<>>} \cup {<<WithResponseDumpLogger("logger", w)>> : w \in BOOLEAN} :
            client = New(a \o b \o c)
    /\ retryableHttpClientDo \in {"retryablehttp", "mock"}
    /\ pc = "Idle"
    /\ req = NilRequest
    /\ v = "nil"
    /\ data = ZeroData
    /\ i = 0
    /\ attempt = 0
    /\ attemptResp = NilResp
    /\ doErr = NilErr
    /\ shouldRetry = FALSE
    /\ checkErr = NilErr
    /\ resp = NilResp
    /\ err = NilErr
    /\ retResp = NilResp
    /\ retErr = NilErr
    /\ requestDumps = <<>>
    /\ responseDumps = <<>>
    /\ dumpCalls = <<>>
    /\ decodes = 0
    /\ e = NilErr
    /\ targetErr = NilErr
    /\ args = NoArgs
    /\ out = NoResult

SpecDump == InitDump /\ [][Next]_vars

\* a call under way takes its next step: the calls are synchronous, and
\* every attempt handed to the sender comes back with an outcome
CallStep ==
    \/ Attempt
    \/ Retry
    \/ Stop
    \/ MockDo
    \/ DumpResponse
    \/ Classify
    \/ Decode

\* clients of every retry budget and policy, without dump loggers
InitLive ==
    /\ \E n \in 0..MaxRetries, p \in Policies :
            client = New(<<WithMaxRetries(n), WithCheckRetryPolicy(p)>>)
    /\ retryableHttpClientDo \in {"retryablehttp", "mock"}
    /\ pc = "Idle"
    /\ req = NilRequest
    /\ v = "nil"
    /\ data = ZeroData
    /\ i = 0
    /\ attempt = 0
    /\ attemptResp = NilResp
    /\ doErr = NilErr
    /\ shouldRetry = FALSE
    /\ checkErr = NilErr
    /\ resp = NilResp
    /\ err = NilErr
    /\ retResp = NilResp
    /\ retErr = NilErr
    /\ requestDumps = <<>>
    /\ responseDumps = <<>>
    /\ dumpCalls = <<>>
    /\ decodes = 0
    /\ e = NilErr
    /\ targetErr = NilErr
    /\ args = NoArgs
    /\ out = NoResult

SpecLive == InitLive /\ [][Next]_vars /\ WF_vars(CallStep)

---------------------------------------------------------------------------
(* handleUnsuccessfulResponse applied twice to one (response, error) pair: *)
(* the second application gets the response as the first one left it.      *)

\* the error of a Read on a body that was closed
errClosedBody == errorsNew(11, <<"c", "l", "o", "s", "e", "d">>)

\* the stream as its next Read finds it: the body of a response of net/http
\* fails every Read after Close (failing), an io.NopCloser over a reader, as
\* in the tests, goes on reading
readAfterClose(r, failing) ==
    IF r # NilResp /\ r.Body.closed > 0 /\ failing /\ r.Body.readErr = NilErr
    THEN [r EXCEPT !.Body.readErr = errClosedBody]
    ELSE r

\* handleUnsuccessfulResponse(args.url, args.resp, args.err)
ClassifyOnceCall ==
    /\ args.fn = "handleUnsuccessfulResponse"
    /\ out = NoResult
    /\ LET h == handleUnsuccessfulResponse(args.url, args.resp, args.err)
       IN  out' = [done |-> TRUE, calls |-> 1, first |-> h, second |-> h]
    /\ UNCHANGED <<e, targetErr, args>>
    /\ UNCHANGED callVars

\* the same call again, on the response the first call returned from
ClassifyAgainCall ==
    /\ args.fn = "handleUnsuccessfulResponse"
    /\ out.done
    /\ out.calls = 1
    /\ LET h == handleUnsuccessfulResponse(
                    args.url, readAfterClose(out.first.resp, args.failing),
                    args.err)
       IN  out' = [out EXCEPT !.calls = 2, !.second = h]
    /\ UNCHANGED <<e, targetErr, args>>
    /\ UNCHANGED callVars

InitTwice ==
    /\ NoCall
    /\ e = NilErr
    /\ targetErr = NilErr
    /\ args \in {[fn |-> "handleUnsuccessfulResponse", url |-> q.URL,
                   resp |-> r, err |-> x, failing |-> f] :
                    q \in Requests, r \in Responses \cup {NilResp},
                    x \in TransportErrors \cup {NilErr}, f \in BOOLEAN}
    /\ out = NoResult

NextTwice ==
    \/ ClassifyOnceCall
    \/ ClassifyAgainCall

SpecTwice == InitTwice /\ [][NextTwice]_vars

---------------------------------------------------------------------------
(* HttpError.Is on its own: the receiver and the target are drawn, Is is   *)
(* applied once.                                                           *)

IsStatuses == {0, 400, 500}
IsBodies == {<<>>, <<"a">>, <<"a", "b">>, <<"b", "c">>}

HttpErrors ==
    {HttpError(<<"h", "/", "a">>, s, b, x) :
        s \in IsStatuses, b \in IsBodies,
        x \in {NilErr, errorsNew(5, <<"x">>), errorsNew(6, <<"x">>)}}

\* e.Is(targetErr)
IsCall ==
    /\ out = NoResult
    /\ out' = [done |-> TRUE, is |-> Is(e, targetErr)]
    /\ UNCHANGED <<e, targetErr, args>>
    /\ UNCHANGED callVars

InitIs ==
    /\ client = New(<<>>)
    /\ retryableHttpClientDo = "retryablehttp"
    /\ pc = "Idle"
    /\ req = NilRequest
    /\ v = "nil"
    /\ data = ZeroData
    /\ i = 0
    /\ attempt = 0
    /\ attemptResp = NilResp
    /\ doErr = NilErr
    /\ shouldRetry = FALSE
    /\ checkErr = NilErr
    /\ resp = NilResp
    /\ err = NilErr
    /\ retResp = NilResp
    /\ retErr = NilErr
    /\ requestDumps = <<>>
    /\ responseDumps = <<>>
    /\ dumpCalls = <<>>
    /\ decodes = 0
    /\ e \in HttpErrors
    /\ targetErr \in HttpErrors \cup {NilErr, errorsNew(5, <<"x">>)}
    /\ args = NoArgs
    /\ out = NoResult

NextIs == IsCall

SpecIs == InitIs /\ [][NextIs]_vars

---------------------------------------------------------------------------
(* The request builders of request.go.  A payload is the nil interface, a  *)
(* string, a map of strings (its members in key order, as encoding/json    *)
(* writes them), a nil pointer or a value encoding/json has no encoding    *)
(* for.  A header is a function from canonical names to the values added.  *)

Backslash == "\\"

NilPayload == [kind |-> "nil"]
StringPayload(s) == [kind |-> "string", s |-> s]
MapPayload(members) == [kind |-> "map", members |-> members]
NilPointerPayload == [kind |-> "nilptr"]
ChanPayload == [kind |-> "chan"]

NilBody == [kind |-> "nil"]

\* bytes.NewBuffer(j)
Buffer(bytes) == [kind |-> "bytes.Buffer", bytes |-> bytes]

sEncodingRequestPayload ==
    <<"e", "n", "c", "o", "d", "i", "n", "g", " ", "r", "e", "q", "u", "e",
      "s", "t", " ", "p", "a", "y", "l", "o", "a", "d">>
sCreatingRequest ==
    <<"c", "r", "e", "a", "t", "i", "n", "g", " ", "r", "e", "q", "u", "e",
      "s", "t">>
sContentType ==
    <<"C", "o", "n", "t", "e", "n", "t", "-", "T", "y", "p", "e">>
sApplicationJson ==
    <<"a", "p", "p", "l", "i", "c", "a", "t", "i", "o", "n", "/", "j", "s",
      "o", "n">>
sNull == <<"n", "u", "l", "l">>

errUnsupportedType == errorsNew(105, <<"u", "n", "s", "u", "p", "p", "o", "r", "t", "e", "d">>)
errMissingScheme == errorsNew(106, <<"m", "i", "s", "s", "i", "n", "g">>)

\* the escapes of a JSON string literal
RECURSIVE Escape(_)
Escape(s) ==
    IF s = <<>> THEN <<>>
    ELSE (IF Head(s) \in {Quote, Backslash} THEN <<Backslash, Head(s)>>
          ELSE <<Head(s)>>) \o Escape(Tail(s))

EncodeString(s) == <<Quote>> \o Escape(s) \o <<Quote>>

RECURSIVE EncodeMembers(_)
EncodeMembers(ms) ==
    IF ms = <<>> THEN <<>>
    ELSE EncodeString(ms[1][1]) \o <<":">> \o EncodeString(ms[1][2])
         \o (IF Len(ms) > 1 THEN <<",">> ELSE <<>>)
         \o EncodeMembers(Tail(ms))

\* json.Marshal(data)
Marshal(payload) ==
    CASE payload.kind = "string" -> [bytes |-> EncodeString(payload.s), err |-> NilErr]
      [] payload.kind = "map" ->
            [bytes |-> <<"{">> \o EncodeMembers(payload.members) \o <<"}">>,
             err |-> NilErr]
      [] payload.kind \in {"nil", "nilptr"} -> [bytes |-> sNull, err |-> NilErr]
      [] payload.kind = "chan" -> [bytes |-> <<>>, err |-> errUnsupportedType]

\* jsonEncode(w, data): json.NewEncoder(w).Encode(data) writes the encoding
\* and a newline
jsonEncode(w, payload) ==
    LET m == Marshal(payload)
    IN  IF m.err # NilErr THEN [w |-> w, err |-> m.err]
        ELSE [w |-> w \o m.bytes \o <<"\n">>, err |-> NilErr]

bodyEncodesStrings(payload) ==
    IF payload.kind = "nil" THEN [body |-> NilBody, err |-> NilErr]
    ELSE LET enc == jsonEncode(<<>>, payload)
         IN  IF enc.err # NilErr
             THEN [body |-> NilBody, err |-> Wrap(enc.err, sEncodingRequestPayload)]
             ELSE [body |-> Buffer(enc.w), err |-> NilErr]

\* body(data)
body(payload) ==
    CASE payload.kind = "nil" -> [body |-> NilBody, err |-> NilErr]
      [] payload.kind = "string" -> [body |-> Buffer(payload.s), err |-> NilErr]
      [] OTHER ->
            LET enc == jsonEncode(<<>>, payload)
            IN  IF enc.err # NilErr
                THEN [body |-> NilBody,
                      err |-> Wrap(enc.err, sEncodingRequestPayload)]
                ELSE [body |-> Buffer(enc.w), err |-> NilErr]

\* url.Parse accepts the url: it does not start with a colon
ValidURL(url) == ~(url # <<>> /\ url[1] = ":")

EmptyHeader == [n \in {} |-> <<>>]

\* newRequestWithContext(ctx, method, url, body)
newRequestWithContext(method, url, b) ==
    IF ~ValidURL(url) THEN [req |-> NilRequest, err |-> errMissingScheme]
    ELSE [req |-> [Method |-> method, URL |-> url, Header |-> EmptyHeader,
                   Body |-> b],
          err |-> NilErr]

Lowers ==
    <<"a", "b", "c", "d", "e", "f", "g", "h", "i", "j", "k", "l", "m", "n",
      "o", "p", "q", "r", "s", "t", "u", "v", "w", "x", "y", "z">>
Uppers ==
    <<"A", "B", "C", "D", "E", "F", "G", "H", "I", "J", "K", "L", "M", "N",
      "O", "P", "Q", "R", "S", "T", "U", "V", "W", "X", "Y", "Z">>

UpperOf(c) ==
    IF \E k \in 1..Len(Lowers) : Lowers[k] = c
    THEN Uppers[CHOOSE k \in 1..Len(Lowers) : Lowers[k] = c]
    ELSE c

LowerOf(c) ==
    IF \E k \in 1..Len(Uppers) : Uppers[k] = c
    THEN Lowers[CHOOSE k \in 1..Len(Uppers) : Uppers[k] = c]
    ELSE c

\* textproto.CanonicalMIMEHeaderKey(s)
CanonicalMIMEHeaderKey(s) ==
    [k \in 1..Len(s) |->
        IF k = 1 \/ s[k - 1] = "-" THEN UpperOf(s[k]) ELSE LowerOf(s[k])]

\* h.Add(key, value)
HeaderAdd(h, key, value) ==
    LET ck == CanonicalMIMEHeaderKey(key)
    IN  [n \in DOMAIN h \cup {ck} |->
            IF n # ck THEN h[n]
            ELSE IF ck \in DOMAIN h THEN Append(h[ck], value) ELSE <<value>>]

\* for k, v := range headers { req.Header.Add(k, v) }, in the order hs
RECURSIVE AddHeaders(_, _)
AddHeaders(h, hs) ==
    IF hs = <<>> THEN h
    ELSE AddHeaders(HeaderAdd(h, hs[1][1], hs[1][2]), Tail(hs))

\* NewJsonRequest(ctx, method, url, data)
NewJsonRequest(method, url, payload) ==
    LET b == body(payload)
    IN  IF b.err # NilErr THEN [req |-> NilRequest, err |-> b.err]
        ELSE LET r == newRequestWithContext(method, url, b.body)
             IN  IF r.err # NilErr
                 THEN [req |-> NilRequest, err |-> Wrap(r.err, sCreatingRequest)]
                 ELSE [req |-> [r.req EXCEPT !.Header =
                                   (sContentType :> <<sApplicationJson>>)],
                       err |-> NilErr]

\* NewJsonRequestWithHeaders(ctx, method, url, data, headers), the map
\* being ranged over in the order hs
NewJsonRequestWithHeaders(method, url, payload, hs) ==
    LET r == NewJsonRequest(method, url, payload)
    IN  IF r.err # NilErr THEN [req |-> NilRequest, err |-> r.err]
        ELSE [req |-> [r.req EXCEPT !.Header = AddHeaders(@, hs)],
              err |-> NilErr]

---------------------------------------------------------------------------
(* HttpError.Error on its own: the receiver is drawn, Error is applied     *)
(* once.                                                                   *)

\* e.Error()
ErrorCall ==
    /\ out = NoResult
    /\ out' = [done |-> TRUE, text |-> Error(e)]
    /\ UNCHANGED <<e, targetErr, args>>
    /\ UNCHANGED callVars

InitError ==
    /\ NoCall
    /\ e \in {HttpError(u, s, b, x) :
                u \in {<<>>, <<"h", "/", "a">>},
                s \in {-1, 0, 7, 502, 1000},
                b \in {<<>>, <<"a">>, <<"a", " ", "b">>},
                x \in {NilErr, errorsNew(5, <<"x">>),
                       Wrap(errRead, sParsingResponse)}}
    /\ targetErr = NilErr
    /\ args = NoArgs
    /\ out = NoResult

NextError == ErrorCall

SpecError == InitError /\ [][NextError]_vars

---------------------------------------------------------------------------
(* New on its own: the option list is drawn, New is applied once.          *)

\* the transport of TestNew's customRoundTriper
customRoundTriper == [kind |-> "customRoundTriper"]

\* an *http.Transport a caller has set up
CallerTransport ==
    [kind |-> "http.Transport", MaxIdleConns |-> 7, MaxIdleConnsPerHost |-> 8,
     MaxConnsPerHost |-> 9]

NewOptionLists ==
    {h \o t \o a \o b \o c :
        h \in {<<>>, <<WithHttpClient(NilClient)>>}
               \cup {<<WithHttpClient([kind |-> "http.Client", Timeout |-> 25,
                                        Transport |-> tr])>> :
                        tr \in {NilTransport, CallerTransport, customRoundTriper}},
        t \in {<<>>, <<WithTimeout(30)>>},
        a \in {<<>>, <<WithMaxIdleConns(200)>>},
        b \in {<<>>, <<WithMaxIdleConnsPerHost(20)>>},
        c \in {<<>>, <<WithMaxConnsPerHost(2)>>}}

\* New(args.options...)
NewCall ==
    /\ args.fn = "New"
    /\ out = NoResult
    /\ out' = [done |-> TRUE, client |-> New(args.options)]
    /\ UNCHANGED <<e, targetErr, args>>
    /\ UNCHANGED callVars

InitNew ==
    /\ NoCall
    /\ e = NilErr
    /\ targetErr = NilErr
    /\ args \in {[fn |-> "New", options |-> o] : o \in NewOptionLists}
    /\ out = NoResult

NextNew == NewCall

SpecNew == InitNew /\ [][NextNew]_vars

---------------------------------------------------------------------------
(* policies.Eof on its own: the response and the error are drawn, the       *)
(* policy is applied once.                                                 *)

\* policies.Eof(ctx, args.resp, args.err)
EofCall ==
    /\ args.fn = "Eof"
    /\ out = NoResult
    /\ LET d == Eof(args.resp, args.err)
       IN  out' = [done |-> TRUE, retry |-> d.retry, err |-> d.err]
    /\ UNCHANGED <<e, targetErr, args>>
    /\ UNCHANGED callVars

InitEof ==
    /\ NoCall
    /\ e = NilErr
    /\ targetErr = NilErr
    /\ args \in {[fn |-> "Eof", resp |-> r, err |-> x] :
                    r \in Responses \cup {NilResp},
                    x \in {NilErr, errEOF, errUnexpectedEOF, errConnEOF,
                           errRefused,
                           errorsNew(7, <<"a", " ">> \o sEOF \o <<" ", "b">>),
                           errorsNew(8, <<"E", "O">>),
                           errorsNew(9, <<"e", "o", "f">>),
                           errorsNew(10, <<"E", " ", "O", "F">>),
                           Wrap(errEOF, sParsingResponse)}}
    /\ out = NoResult

NextEof == EofCall

SpecEof == InitEof /\ [][NextEof]_vars

---------------------------------------------------------------------------
(* The JSON request builders on their own: the arguments are drawn, the    *)
(* builder is applied once.  A Go map is ranged over in any order.         *)

sBadURL == <<":", "/", "a">>
sTextPlain == <<"t", "e", "x", "t">>
sXml == <<"x", "m", "l">>

Payloads ==
    {NilPayload, NilPointerPayload, ChanPayload,
     StringPayload(bKeyValue), StringPayload(bText), StringPayload(<<>>),
     MapPayload(<<>>),
     MapPayload(<<<<sKey, <<"v", "a", "l", "u", "e">>>>>>),
     MapPayload(<<<<sKey, <<"a", Quote, "b">>>>, <<<<"z">>, <<>>>>>>)}

\* map[string]string values, as sets of <<key, value>>
HeaderMaps ==
    {{},
     {<<<<"X", "-", "a">>, <<"1">>>>},
     {<<<<"c", "o", "n", "t", "e", "n", "t", "-", "t", "y", "p", "e">>, sTextPlain>>},
     {<<sContentType, sTextPlain>>,
      <<<<"c", "o", "n", "t", "e", "n", "t", "-", "t", "y", "p", "e">>, sXml>>},
     {<<<<"X", "-", "a">>, <<"1">>>>, <<sContentType, sXml>>}}

\* the orders a range over the map may take
Orderings(S) ==
    {f \in [1..Cardinality(S) -> S] :
        \A a, b \in 1..Cardinality(S) : a # b => f[a] # f[b]}

BuilderArgs ==
    {[fn |-> "NewJsonRequest", method |-> sPOST, url |-> u, data |-> p] :
        u \in {<<"h", "/", "a">>, sBadURL}, p \in Payloads}
    \cup
    {[fn |-> "NewJsonRequestWithHeaders", method |-> sPOST, url |-> u,
      data |-> p, headers |-> hm] :
        u \in {<<"h", "/", "a">>, sBadURL}, p \in Payloads, hm \in HeaderMaps}

NewJsonRequestCall ==
    /\ args.fn = "NewJsonRequest"
    /\ out = NoResult
    /\ LET r == NewJsonRequest(args.method, args.url, args.data)
       IN  out' = [done |-> TRUE, req |-> r.req, err |-> r.err]
    /\ UNCHANGED <<e, targetErr, args>>
    /\ UNCHANGED callVars

NewJsonRequestWithHeadersCall ==
    /\ args.fn = "NewJsonRequestWithHeaders"
    /\ out = NoResult
    /\ \E hs \in Orderings(args.headers) :
          LET r == NewJsonRequestWithHeaders(args.method, args.url, args.data, hs)
          IN  out' = [done |-> TRUE, req |-> r.req, err |-> r.err]
    /\ UNCHANGED <<e, targetErr, args>>
    /\ UNCHANGED callVars

InitRequest ==
    /\ NoCall
    /\ e = NilErr
    /\ targetErr = NilErr
    /\ args \in BuilderArgs
    /\ out = NoResult

NextRequest ==
    \/ NewJsonRequestCall
    \/ NewJsonRequestWithHeadersCall

SpecRequest == InitRequest /\ [][NextRequest]_vars

---------------------------------------------------------------------------
(* Claims.                                                                 *)

Returned == pc \in {"DumpingResponse", "Classifying", "Decoding", "Done"}

\* C1: a client built without WithCheckRetryPolicy has a policy that answers
\* (false, nil) to every outcome of an attempt, and a logical call through
\* the real sender makes exactly one attempt, whatever the outcome and
\* whatever maxRetries is.
C1_DefaultPolicyOneAttempt ==
    client.checkRetryPolicy = "nil" =>
        /\ \A o \in AttemptOutcomes :
              CheckRetry(client.retryableHttpClient.CheckRetry, o.resp, o.err)
                  = [retry |-> FALSE, err |-> NilErr]
        /\ retryableHttpClientDo = "retryablehttp" =>
              /\ attempt <= 1
              /\ Returned => attempt = 1

C1_Witness ==
    /\ client.checkRetryPolicy = "nil"
    /\ client.maxRetries = MaxRetries
    /\ retryableHttpClientDo = "retryablehttp"
    /\ pc = "Done"
    /\ attempt = 1
    /\ retErr = HttpError(req.URL, 502, <<>>, NilErr)

\* C2: with maxRetries = 1 and the Eof policy, a call whose attempts all end
\* in an end-of-stream error makes exactly 2 attempts and returns no response
\* and an HttpError with StatusCode 0, an empty Body and an Err whose text
\* contains "EOF".  (Under the Eof policy an attempt follows only an attempt
\* that ended in such an error, so the last attempt's error decides.)
C2_EofTwoAttempts ==
    (/\ client.checkRetryPolicy = "policies.Eof"
     /\ client.maxRetries = 1
     /\ retryableHttpClientDo = "retryablehttp") =>
        /\ attempt <= 2
        /\ (pc = "Done" /\ doErr # NilErr /\ Contains(ErrorText(doErr), sEOF)) =>
              /\ attempt = 2
              /\ retResp = NilResp
              /\ retErr.kind = "HttpError"
              /\ retErr.StatusCode = 0
              /\ retErr.Body = <<>>
              /\ retErr.Err # NilErr
              /\ Contains(ErrorText(retErr.Err), sEOF)

C2_Witness ==
    /\ client.checkRetryPolicy = "policies.Eof"
    /\ client.maxRetries = 1
    /\ retryableHttpClientDo = "retryablehttp"
    /\ pc = "Done"
    /\ doErr = errConnEOF
    /\ attempt = 2
    /\ retErr.kind = "HttpError"
    /\ retErr.Err = GivingUp(req.Method, req.URL, 2, errConnEOF)

\* C3: a response with status >= 400 whose body reads to its end is
\* classified as the HttpError with that status, the whole body and the
\* error the sender returned with the response (nil if none).
C3_ErrorStatusClassified ==
    (/\ pc = "Done"
     /\ resp # NilResp
     /\ resp.StatusCode >= 400
     /\ resp.Body.readErr = NilErr) =>
        /\ retErr = HttpError(req.URL, resp.StatusCode, resp.Body.data, err)
        /\ retResp = resp

C3_Witness ==
    /\ pc = "Done"
    /\ resp # NilResp
    /\ resp.StatusCode = 400
    /\ resp.Body.data = bText
    /\ err = errRefused
    /\ retErr = HttpError(req.URL, 400, bText, errRefused)

\* C4: with no error from the sender and a response that is nil or has a
\* status < 400, classification gives no error and the call goes on to
\* decoding; a call whose sender returned (nil, nil) returns (nil, nil).
C4_NoErrorClassified ==
    [][/\ (/\ pc = "Classifying"
           /\ err = NilErr
           /\ (resp = NilResp \/ resp.StatusCode < 400)) =>
              (pc' = "Decoding" /\ resp' = resp)
       /\ (pc' = "Done" /\ resp' = NilResp /\ err' = NilErr) =>
              (retResp' = NilResp /\ retErr' = NilErr /\ decodes' = 0)]_vars

C4_Witness ==
    /\ pc = "Done"
    /\ v = "ptr"
    /\ resp = NilResp
    /\ err = NilErr
    /\ retResp = NilResp
    /\ retErr = NilErr

\* C5: when the sender returns no response and an error, the call returns
\* no response and the HttpError with StatusCode 0, an empty Body and that
\* very error as Err.
C5_NoResponseError ==
    (pc = "Done" /\ resp = NilResp /\ err # NilErr) =>
        /\ retErr = HttpError(req.URL, 0, <<>>, err)
        /\ retResp = NilResp

C5_Witness ==
    /\ pc = "Done"
    /\ retryableHttpClientDo = "retryablehttp"
    /\ resp = NilResp
    /\ err = GivingUp(req.Method, req.URL, 1, errRefused)
    /\ retErr = HttpError(req.URL, 0, <<>>, err)

\* C6: when the status is >= 400 and reading the body fails, the HttpError
\* keeps the status, has an empty Body, and its Err is the read failure
\* wrapped with "parsing response"; the error the sender returned with the
\* response is not in it.
C6_ReadFailureMasks ==
    (/\ pc = "Done"
     /\ resp # NilResp
     /\ resp.StatusCode >= 400
     /\ resp.Body.readErr # NilErr) =>
        /\ retErr.kind = "HttpError"
        /\ retErr.StatusCode = resp.StatusCode
        /\ retErr.Body = <<>>
        /\ retErr.Err.kind = "withStack"
        /\ retErr.Err.cause = resp.Body.readErr
        /\ retErr.Err.msg
              = sParsingResponse \o <<":", " ">> \o ErrorText(resp.Body.readErr)
        /\ retErr.Err # err

C6_Witness ==
    /\ pc = "Done"
    /\ resp # NilResp
    /\ resp.StatusCode = 502
    /\ resp.Body.readErr = errRead
    /\ err = errRefused
    /\ retErr.Err.cause = errRead

RespBelow400WithError ==
    /\ pc = "Done"
    /\ resp # NilResp
    /\ resp.StatusCode < 400
    /\ err # NilErr

sValue == <<"v", "a", "l", "u", "e">>

\* the body reads to its end and is JSON the destination type takes
ValidJSON(r) ==
    /\ r.Body.readErr = NilErr
    /\ Unmarshal(r.Body.data, ZeroData).err = NilErr

\* C8: with a destination, a response with status < 400, no error from the
\* sender and a body that is valid JSON for the destination, the destination
\* holds the decoded body ({"key":"value"} gives Key = "value"), the response
\* is returned with its status, and the error is nil.
C8_DecodedIntoDestination ==
    (/\ pc = "Done"
     /\ v = "ptr"
     /\ resp # NilResp
     /\ resp.StatusCode < 400
     /\ err = NilErr
     /\ ValidJSON(resp)) =>
        /\ retErr = NilErr
        /\ retResp = resp
        /\ retResp.StatusCode < 400
        /\ decodes = 1
        /\ \E d0 \in Destinations : data = Unmarshal(resp.Body.data, d0).data
        /\ resp.Body.data = bKeyValue => data = [Key |-> sValue]
        /\ resp.Body.data = bFolded => data = [Key |-> <<"v">>]

C8_Witness ==
    /\ pc = "Done"
    /\ v = "ptr"
    /\ resp # NilResp
    /\ resp.StatusCode = 200
    /\ resp.Body.data = bKeyValue
    /\ data = [Key |-> sValue]
    /\ retResp.StatusCode = 200
    /\ retErr = NilErr

\* the decoding of r's body into d fails
DecodeFails(r, d) ==
    \/ r.Body.readErr # NilErr
    \/ Unmarshal(SubSeq(r.Body.data, r.Body.off + 1, Len(r.Body.data)), d).err # NilErr

\* the error json gives for r's body
DecodeError(r, d) ==
    IF r.Body.readErr # NilErr THEN r.Body.readErr
    ELSE Unmarshal(SubSeq(r.Body.data, r.Body.off + 1, Len(r.Body.data)), d).err

\* C9: when classification gave no error and decoding into the destination
\* fails, the call returns the response and the HttpError with the
\* response's status, an empty Body and the decode failure wrapped with
\* "decoding response"; no attempt is made for it and the call ends.
C9_DecodeFailure ==
    [][(/\ pc = "Decoding"
        /\ v = "ptr"
        /\ resp # NilResp
        /\ DecodeFails(resp, data)) =>
           /\ pc' = "Done"
           /\ attempt' = attempt
           /\ retResp' = resp'
           /\ retResp'.StatusCode = resp.StatusCode
           /\ retErr'.kind = "HttpError"
           /\ retErr'.Url = req.URL
           /\ retErr'.StatusCode = resp.StatusCode
           /\ retErr'.Body = <<>>
           /\ retErr'.Err.kind = "withStack"
           /\ retErr'.Err.cause = DecodeError(resp, data)
           /\ retErr'.Err.msg
                 = sDecodingResponse \o <<":", " ">> \o ErrorText(DecodeError(resp, data))
           /\ data' = data]_vars

C9_Witness ==
    /\ pc = "Done"
    /\ v = "ptr"
    /\ retryableHttpClientDo = "retryablehttp"
    /\ attempt = 1
    /\ resp # NilResp
    /\ resp.StatusCode = 200
    /\ resp.Body.data = bTruncated
    /\ retResp = resp
    /\ retErr = HttpError(req.URL, 200, <<>>, Wrap(errUnexpectedEOF, sDecodingResponse))

\* C10: when the target's StatusCode is 0, what Is answers does not depend
\* on the receiver's StatusCode; when the target's Body is empty, it does not
\* depend on the receiver's Body.
C10_ZeroFieldsAreWildcards ==
    (out # NoResult /\ targetErr.kind = "HttpError") =>
        /\ targetErr.StatusCode = 0 =>
              \A s \in IsStatuses : Is([e EXCEPT !.StatusCode = s], targetErr) = out.is
        /\ targetErr.Body = <<>> =>
              \A b \in IsBodies : Is([e EXCEPT !.Body = b], targetErr) = out.is

C10_Witness ==
    /\ out # NoResult
    /\ out.is
    /\ targetErr.kind = "HttpError"
    /\ targetErr.StatusCode = 0
    /\ targetErr.Body = <<>>
    /\ e.StatusCode = 400
    /\ e.Body = <<"a", "b">>
    /\ e.Err # NilErr

\* b occurs in a as a run of consecutive characters
Substring(a, b) ==
    \E k \in 0..Len(a) :
        /\ k + Len(b) <= Len(a)
        /\ \A j \in 1..Len(b) : a[k + j] = b[j]

IsAnswered == out # NoResult /\ targetErr.kind = "HttpError"

OtherFieldsMatch ==
    /\ targetErr.StatusCode \in {0, e.StatusCode}
    /\ targetErr.Err = e.Err

\* C11 as stated: with status and Err matching, Is answers true when either
\* body contains the other or the target's body is empty.
C11_AsStated ==
    (/\ IsAnswered
     /\ OtherFieldsMatch
     /\ \/ Substring(e.Body, targetErr.Body)
        \/ Substring(targetErr.Body, e.Body)
        \/ targetErr.Body = <<>>) => out.is

\* C11: with status and Err matching, Is answers true exactly when the
\* receiver's body contains the target's body (an empty target body is
\* contained in every body); a receiver whose body is a proper substring of
\* the target's body does not match.
C11_ReceiverContainsTarget ==
    (IsAnswered /\ OtherFieldsMatch) =>
        /\ out.is <=> (Substring(e.Body, targetErr.Body) \/ targetErr.Body = <<>>)
        /\ (Substring(targetErr.Body, e.Body) /\ e.Body # targetErr.Body) => ~out.is

C11_Witness ==
    /\ IsAnswered
    /\ OtherFieldsMatch
    /\ e.Body = <<"a">>
    /\ targetErr.Body = <<"a", "b">>
    /\ ~out.is

\* C12: Is answers false whenever the receiver's Err and the target's Err
\* are different error values, nil against non-nil included, whatever their
\* messages, the status codes and the bodies are.
C12_ErrsMatchByIdentity ==
    (IsAnswered /\ e.Err # targetErr.Err) => ~out.is

C12_Witness ==
    /\ IsAnswered
    /\ e.Err = errorsNew(5, <<"x">>)
    /\ targetErr.Err = errorsNew(6, <<"x">>)
    /\ ErrorText(e.Err) = ErrorText(targetErr.Err)
    /\ e.StatusCode = targetErr.StatusCode
    /\ e.Body = targetErr.Body
    /\ ~out.is

\* C13: Is answers false for every receiver when the target is nil or is an
\* error that is not an HttpError.
C13_ForeignTargetNeverMatches ==
    (out # NoResult /\ (targetErr = NilErr \/ targetErr.kind # "HttpError")) =>
        ~out.is

C13_Witness ==
    /\ out # NoResult
    /\ targetErr = errorsNew(5, <<"x">>)
    /\ e.Err = targetErr
    /\ ~out.is

\* the decimal digits of a positive status code below 10000
Decimal(n) ==
    LET ds == <<"0", "1", "2", "3", "4", "5", "6", "7", "8", "9">>
        d(k) == ds[((n \div k) % 10) + 1]
    IN  IF n < 10 THEN <<d(1)>>
        ELSE IF n < 100 THEN <<d(10), d(1)>>
        ELSE IF n < 1000 THEN <<d(100), d(10), d(1)>>
        ELSE <<d(1000), d(100), d(10), d(1)>>

\* C14: Error() is "request to <Url> failed. httpStatus: [ <S> ]
\* responseBody: [ <Body> ] error: [ <Err> ]", <S> being the decimal status
\* code when StatusCode > 0 and "no status" otherwise, <Err> the underlying
\* error's text or "<nil>"; a 502 with an empty body and no error gives
\* httpStatus: [ 502 ] responseBody: [  ] error: [ <nil> ].
C14_ErrorMessage ==
    out # NoResult =>
        /\ out.text =
              <<"r", "e", "q", "u", "e", "s", "t", " ", "t", "o", " ">>
              \o e.Url
              \o
              <<" ", "f", "a", "i", "l", "e", "d", ".", " ", "h", "t", "t",
                "p", "S", "t", "a", "t", "u", "s", ":", " ", "[", " ">>
              \o (IF e.StatusCode > 0 THEN Decimal(e.StatusCode)
                  ELSE
                      <<"n", "o", " ", "s", "t", "a", "t", "u", "s">>)
              \o
              <<" ", "]", " ", "r", "e", "s", "p", "o", "n", "s", "e", "B",
                "o", "d", "y", ":", " ", "[", " ">>
              \o e.Body
              \o
              <<" ", "]", " ", "e", "r", "r", "o", "r", ":", " ", "[", " ">>
              \o (IF e.Err = NilErr THEN <<"<", "n", "i", "l", ">">> ELSE e.Err.msg)
              \o <<" ", "]">>
        /\ (e = HttpError(<<"h", "/", "a">>, 502, <<>>, NilErr)) =>
              out.text =
              <<"r", "e", "q", "u", "e", "s", "t", " ", "t", "o", " ", "h",
                "/", "a", " ", "f", "a", "i", "l", "e", "d", ".", " ", "h",
                "t", "t", "p", "S", "t", "a", "t", "u", "s", ":", " ", "[",
                " ", "5", "0", "2", " ", "]", " ", "r", "e", "s", "p", "o",
                "n", "s", "e", "B", "o", "d", "y", ":", " ", "[", " ", " ",
                "]", " ", "e", "r", "r", "o", "r", ":", " ", "[", " ", "<",
                "n", "i", "l", ">", " ", "]">>

C14_Witness ==
    /\ out # NoResult
    /\ e = HttpError(<<"h", "/", "a">>, 502, <<>>, NilErr)
    /\ Len(out.text) = 78

IsDumpRequestOut(c) == c.fn = "dumpRequestOut"
IsDumpResponse(c) == c.fn = "dumpResponse"
RequestDumpCalls == SelectSeq(dumpCalls, IsDumpRequestOut)
ResponseDumpCalls == SelectSeq(dumpCalls, IsDumpResponse)

\* no error returned to the caller is, or carries, the dump's error
DumpErrorHidden ==
    /\ retErr # errDump
    /\ (retErr # NilErr /\ retErr.kind = "HttpError") =>
          (retErr.Err # errDump /\ ~Contains(ErrorText(retErr.Err), errDump.msg))

\* the request was serialized and logged as the client's options ask
RequestDumped ==
    IF client.requestDumpLogger = "nil"
    THEN RequestDumpCalls = <<>> /\ requestDumps = <<>>
    ELSE /\ Len(RequestDumpCalls) = 1
         /\ RequestDumpCalls[1].req = req
         /\ RequestDumpCalls[1].body = client.dumpRequestBody
         /\ IF RequestDumpCalls[1].err = NilErr
            THEN requestDumps = <<[Method |-> req.Method, URL |-> req.URL,
                                   body |-> client.dumpRequestBody]>>
            ELSE requestDumps = <<>>

\* C15: a call that begins serializes the request once, with the body only
\* when configured, and hands the dump to the logger before the sender has
\* made any attempt; when serializing fails the logger gets nothing, the
\* call goes on to the sender and no returned error shows the failure;
\* without a logger nothing is serialized; later steps log no request dump.
C15_RequestDumpedBeforeSend ==
    [][/\ (pc = "Idle" /\ pc' # "Idle") =>
              (pc' = "Sending" /\ attempt' = 0 /\ resp' = NilResp /\ RequestDumped')
       /\ (pc # "Idle" /\ pc' # "Idle") =>
              (requestDumps' = requestDumps /\ RequestDumpCalls' = RequestDumpCalls)
       /\ pc' = "Done" => DumpErrorHidden']_vars

C15_Witness ==
    /\ pc = "Done"
    /\ client.requestDumpLogger # "nil"
    /\ Len(RequestDumpCalls) = 1
    /\ RequestDumpCalls[1].err = errDump
    /\ requestDumps = <<>>
    /\ retryableHttpClientDo = "retryablehttp"
    /\ attempt = 1
    /\ retResp # NilResp
    /\ retErr = NilErr

\* the response was serialized and logged as the client's options ask
ResponseDumped ==
    IF client.responseDumpLogger = "nil" \/ resp = NilResp
    THEN responseDumps = <<>>
    ELSE /\ Len(ResponseDumpCalls) = 1
         /\ ResponseDumpCalls[1].resp = resp
         /\ ResponseDumpCalls[1].body = client.dumpResponseBody
         /\ IF ResponseDumpCalls[1].err = NilErr
            THEN responseDumps =
                    <<[StatusCode |-> resp.StatusCode,
                       body |-> client.dumpResponseBody,
                       data |-> IF client.dumpResponseBody THEN resp.Body.data
                                ELSE <<>>]>>
            ELSE responseDumps = <<>>

NewAnswered == out # NoResult /\ args.fn = "New"

\* the options of the given name in the list New was called with
Given(name) == SelectSeq(args.options, LAMBDA o : o.name = name)

\* the number the last option of that name carries, 0 without one
Configured(name) ==
    IF Given(name) = <<>> THEN 0 ELSE Given(name)[Len(Given(name))].n

\* the http client the caller supplied, NilClient without one
Supplied ==
    IF Given("WithHttpClient") = <<>> THEN NilClient
    ELSE Given("WithHttpClient")[Len(Given("WithHttpClient"))].httpClient

SuppliedCustomTransport ==
    /\ Supplied # NilClient
    /\ Supplied.Transport.kind \notin {"nil", "http.Transport"}

\* the http client the sender uses
SenderClient == out.client.retryableHttpClient.HTTPClient

\* C17: after New, unless the caller supplied an http client with a custom
\* RoundTripper, the sender's transport is an http.Transport whose
\* MaxIdleConns, MaxIdleConnsPerHost and MaxConnsPerHost are the option
\* values, 0 for an option not given; with a custom RoundTripper the
\* sender's transport is that RoundTripper, untouched.
C17_TransportPatched ==
    NewAnswered =>
        IF SuppliedCustomTransport
        THEN SenderClient.Transport = Supplied.Transport
        ELSE /\ SenderClient.Transport.kind = "http.Transport"
             /\ SenderClient.Transport.MaxIdleConns = Configured("WithMaxIdleConns")
             /\ SenderClient.Transport.MaxIdleConnsPerHost =
                   Configured("WithMaxIdleConnsPerHost")
             /\ SenderClient.Transport.MaxConnsPerHost =
                   Configured("WithMaxConnsPerHost")

C17_Witness ==
    /\ NewAnswered
    /\ Supplied # NilClient
    /\ Supplied.Transport = CallerTransport
    /\ Given("WithMaxIdleConns") = <<>>
    /\ SenderClient.Transport.MaxIdleConns = 0
    /\ SenderClient.Transport.MaxIdleConnsPerHost = 20
    /\ SenderClient.Transport.MaxConnsPerHost = 2

\* C18: after New, the sender's http client has the WithTimeout value as
\* its Timeout, 0 without that option, when no http client was supplied,
\* and the supplied client's own Timeout when one was.
C18_Timeout ==
    NewAnswered =>
        SenderClient.Timeout =
            IF Supplied = NilClient THEN Configured("WithTimeout")
            ELSE Supplied.Timeout

C18_Witness ==
    /\ NewAnswered
    /\ Supplied # NilClient
    /\ Supplied.Timeout = 25
    /\ Configured("WithTimeout") = 30
    /\ SenderClient.Timeout = 25

\* the letters E, O, F stand next to each other in s
HasEOF(s) ==
    \E k \in 1..Len(s) :
        k + 2 <= Len(s) /\ s[k] = "E" /\ s[k + 1] = "O" /\ s[k + 2] = "F"

\* C19: Eof answers retry = true exactly when the error given is not nil
\* and its message contains "EOF", whatever the response is, and the error
\* it returns is the error it was given.
C19_EofPolicy ==
    (out # NoResult /\ args.fn = "Eof") =>
        /\ out.retry <=> (args.err # NilErr /\ HasEOF(args.err.msg))
        /\ out.err = args.err

C19_Witness ==
    /\ out # NoResult
    /\ args.fn = "Eof"
    /\ args.resp # NilResp
    /\ args.err = errorsNew(7, <<"a", " ">> \o sEOF \o <<" ", "b">>)
    /\ out.retry
    /\ out.err = args.err

Built ==
    /\ out # NoResult
    /\ args.fn \in {"NewJsonRequest", "NewJsonRequestWithHeaders"}

\* C20: a JSON builder returns a request or an error, never both; the
\* request has Content-Type with application/json as its first value; a
\* string payload is the body byte for byte, a nil payload gives no body,
\* any other payload gives its JSON encoding (a map of key and value gives
\* {"key":"value"} and a newline); a payload that cannot be encoded gives no
\* request and the error "encoding request payload: ...".
C20_JsonRequest ==
    Built =>
        /\ (out.req = NilRequest) <=> (out.err # NilErr)
        /\ out.req # NilRequest =>
              /\ sContentType \in DOMAIN out.req.Header
              /\ out.req.Header[sContentType][1] =
                    <<"a", "p", "p", "l", "i", "c", "a", "t", "i", "o",
                      "n", "/", "j", "s", "o", "n">>
        /\ (args.data.kind = "string" /\ args.url[1] # ":") =>
              /\ out.req # NilRequest
              /\ out.req.Body # NilBody
              /\ out.req.Body.bytes = args.data.s
        /\ (args.data.kind = "nil" /\ args.url[1] # ":") =>
              /\ out.req # NilRequest
              /\ out.req.Body = NilBody
        /\ (args.data.kind \in {"map", "nilptr"} /\ args.url[1] # ":") =>
              /\ out.req # NilRequest
              /\ out.req.Body # NilBody
              /\ out.req.Body.bytes[Len(out.req.Body.bytes)] = "\n"
              /\ args.data.kind = "nilptr" =>
                    out.req.Body.bytes = <<"n", "u", "l", "l", "\n">>
              /\ args.data = MapPayload(<<<<sKey, <<"v", "a", "l", "u", "e">>>>>>) =>
                    out.req.Body.bytes = bKeyValue \o <<"\n">>
              /\ args.data.kind = "map" =>
                    /\ out.req.Body.bytes[1] = "{"
                    /\ out.req.Body.bytes[Len(out.req.Body.bytes) - 1] = "}"
        /\ args.data.kind = "chan" =>
              /\ out.req = NilRequest
              /\ out.err.kind = "withStack"
              /\ out.err.cause = errUnsupportedType
              /\ SubSeq(out.err.msg, 1, 26) =
                    <<"e", "n", "c", "o", "d", "i", "n", "g", " ", "r",
                      "e", "q", "u", "e", "s", "t", " ", "p", "a", "y",
                      "l", "o", "a", "d", ":", " ">>

C20_Witness ==
    /\ Built
    /\ args.fn = "NewJsonRequestWithHeaders"
    /\ args.data = StringPayload(bKeyValue)
    /\ Cardinality(args.headers) = 2
    /\ out.req # NilRequest
    /\ out.req.Body.bytes = bKeyValue
    /\ Len(out.req.Header[sContentType]) = 3

\* C21 as stated: a further attempt is started only if the policy signalled
\* retry and the attempts made so far are fewer than maxRetries.
C21_AsStated ==
    [][(pc = "PolicyCheck" /\ pc' = "Sending") =>
          (shouldRetry /\ attempt < client.maxRetries)]_vars

\* C21: every attempt is followed by the policy's decision on that
\* attempt's outcome; a further attempt is started only if the policy
\* signalled retry and the retries made so far (the attempts but the first)
\* are fewer than maxRetries, and in every other case the loop stops; an
\* attempt is only ever made by the sender's loop.
C21_RetryLoop ==
    [][/\ (pc = "Sending" /\ pc' = "PolicyCheck") =>
              /\ attempt' = attempt + 1
              /\ LET d == CheckRetry(client.retryableHttpClient.CheckRetry,
                                     attemptResp', doErr')
                 IN  shouldRetry' = d.retry /\ checkErr' = d.err
       /\ (pc = "PolicyCheck" /\ pc' = "Sending") =>
              /\ shouldRetry
              /\ attempt - 1 < client.maxRetries
              /\ attempt' = attempt
       /\ (pc = "PolicyCheck" /\ pc' # pc /\ pc' # "Sending") =>
              /\ ~(shouldRetry /\ attempt - 1 < client.maxRetries)
              /\ pc' = "DumpingResponse"
       /\ (attempt' # attempt /\ attempt' # 0) =>
              (pc = "Sending" /\ retryableHttpClientDo = "retryablehttp")]_vars

C21_Witness ==
    /\ pc = "Sending"
    /\ client.maxRetries = 1
    /\ attempt = 1
    /\ i = 1
    /\ shouldRetry
    /\ doErr = errConnEOF

\* the sender's result is one classification turns into an error
ClassifiedAsError ==
    \/ err # NilErr
    \/ (resp # NilResp /\ resp.StatusCode >= 400)

\* C22: when classification yields an error the call ends at once: it
\* returns that HttpError with the response the sender returned (nil when
\* there is none), nothing is decoded and the destination's value stays as
\* the caller left it, with or without a destination.
C22_ClassificationErrorReturns ==
    [][(pc = "Classifying" /\ pc' # pc /\ ClassifiedAsError) =>
          /\ pc' = "Done"
          /\ retErr' # NilErr
          /\ retErr'.kind = "HttpError"
          /\ retErr'.Url = req.URL
          /\ (resp = NilResp) <=> (retResp' = NilResp)
          /\ resp # NilResp =>
                /\ retResp'.StatusCode = resp.StatusCode
                /\ retResp'.Body.data = resp.Body.data
          /\ decodes' = 0
          /\ data' = data
          /\ v' = v]_vars

C22_Witness ==
    /\ pc = "Done"
    /\ v = "ptr"
    /\ data = [Key |-> <<"o", "l", "d">>]
    /\ decodes = 0
    /\ retErr # NilErr
    /\ retResp # NilResp
    /\ retResp.StatusCode = 400
    /\ retResp.Body.data = bKeyValue

\* the call has ended with classification's error and a response
ClassificationErrorWithResponse ==
    /\ pc = "Done"
    /\ retErr # NilErr
    /\ decodes = 0
    /\ retResp # NilResp

C24_BodyClosedAtMostOnce ==
    [][/\ (resp # NilResp /\ resp' # NilResp
           /\ resp'.Body.closed # resp.Body.closed) =>
              /\ resp'.Body.closed = resp.Body.closed + 1
              /\ \/ (pc = "Classifying" /\ resp.StatusCode >= 400)
                 \/ (pc = "Decoding" /\ v # "nil" /\ retErr = NilErr)
       /\ (resp # NilResp /\ resp' # NilResp
           /\ resp'.Body.off # resp.Body.off) =>
              pc \in {"Classifying", "Decoding"}
       /\ resp' # NilResp => resp'.Body.closed <= 1
       /\ (pc' = "Done" /\ v' = "nil" /\ retErr' = NilErr /\ retResp' # NilResp) =>
              /\ retResp'.Body.closed = 0
              /\ retResp'.Body.off = 0]_vars

C24_Witness ==
    /\ pc = "Done"
    /\ v = "nil"
    /\ retErr = NilErr
    /\ retResp # NilResp
    /\ retResp.StatusCode = 200
    /\ retResp.Body.data = bKeyValue
    /\ retResp.Body.closed = 0
    /\ retResp.Body.off = 0

\* C26: every call that has begun reaches Done, whatever maxRetries, the
\* policy and the sender's outcomes are, and what it returns there is no
\* error or an HttpError.
C26_Terminates ==
    /\ [](pc = "Done" => (retErr = NilErr \/ retErr.kind = "HttpError"))
    /\ [](pc # "Idle" => <>(pc = "Done"))

C26_Witness ==
    /\ pc = "Done"
    /\ client.maxRetries = MaxRetries
    /\ attempt = MaxRetries + 1
    /\ retErr # NilErr
    /\ retErr.kind = "HttpError"
    /\ retErr.Err.kind = "wrapError"

\* a pair classified twice, whose first classification read and closed the body
ClassifiedTwice ==
    /\ args.fn = "handleUnsuccessfulResponse"
    /\ out.done
    /\ out.calls = 2
    /\ out.first.resp # NilResp
    /\ out.first.resp.Body.closed = 1

\* C27: classifying a (response, error) pair again, after the first
\* classification read and closed the body, gives an HttpError with the same
\* status code; it finds nothing left to read, so its Body is empty, and its
\* Err is the error received or the wrapped error of the read.
C27_SecondClassification ==
    ClassifiedTwice =>
        /\ out.first.err.kind = "HttpError"
        /\ out.second.err.kind = "HttpError"
        /\ out.second.err.StatusCode = out.first.err.StatusCode
        /\ out.second.err.StatusCode = args.resp.StatusCode
        /\ out.second.err.Url = args.url
        /\ out.second.err.Body = <<>>
        /\ out.second.err.Err \in
              {args.err, Wrap(errClosedBody, sParsingResponse),
               Wrap(errRead, sParsingResponse)}

C27_Witness ==
    /\ ClassifiedTwice
    /\ args.resp = Response(502, bKeyValue, NilErr)
    /\ args.err = NilErr
    /\ ~args.failing
    /\ out.first.err.Body = bKeyValue
    /\ out.second.err.StatusCode = 502
    /\ out.second.err.Body = <<>>
    /\ out.second.resp.Body.closed = 2

===========================================================================
